---- MODULE Spec2Model ----
(***************************************************************************)
(* A model of the economic-data ETL pipeline: the retry decorator, the     *)
(* FRED extractor with its metadata and snapshot files, and the loader's   *)
(* upsert of the fact table.                                               *)
(***************************************************************************)
EXTENDS Integers, Sequences, FiniteSets, TLC

VARIABLES
    pc,        \* "idle": no wrapped call in progress; "running": inside wrapper's loop
    callee,    \* the wrapped operation of the current / last call, with its arguments
    attempt,   \* the loop variable of wrapper's `for attempt in range(3)`
    trace,     \* outcomes of func's invocations in the current / last call, in order
    sleeps,    \* arguments of time.sleep in the current / last call, in order
    result,    \* how the last call of the wrapper ended (NoResult while running)
    FRED_API_KEY, \* config.FRED_API_KEY: the credential, or None
    BLS_API_KEY,  \* config.BLS_API_KEY: the credential, or None
    metadata,  \* DATA_METADATA_DIR: name of a metadata file -> the text in it
    files,     \* DATA_RAW_DIR: <<source, identifier, datestamp>> -> content of the snapshot
    now,       \* datetime.now(): the current day
    remote,    \* the remote service: series id -> the observations it holds
    writes,    \* the files written by the current / last call, in order
    received,  \* the payload the last finished call got, NoData if it raised
    seen,      \* how the last finished call relates to the call before it
    requests,  \* remote requests issued by the current / last call
    sent,      \* the parameters of the last of them (NoData: none issued)
    reads,     \* metadata files loaded by the current / last call
    changed,   \* <<source, identifier, day>> of every call that detected a change
    tables,    \* the names of the tables that exist in the database
    fact,      \* fact_economic_observations: <<series_id, date>> -> the row's other columns
    df,        \* the DataFrame handed to upsert_observations
    stats,     \* how the last upsert_observations call on df ended (NoResult: not called)
    runs,      \* successful upsert_observations calls on df in a row (counted up to 2)
    dim,       \* dim_series: series_id -> the row's other columns
    dimDf,     \* the DataFrame handed to upsert_dim_series
    dimStats,  \* how the last upsert_dim_series call on dimDf ended (NoResult: not called)
    bound,     \* what main's collaborators are: "real" (extract.py), "stub" (patched) or
               \* "payload" (extractors patched to hand back payloads, the rest real)
    pipe,      \* where run_pipeline is: "idle", "extract", "waiting", "transform", "load"
               \* (then "upsert", "dims" when the loader's calls are told apart), "done"
    idx,       \* the position of the Extract loop in FRED_SERIES
    fred_data, \* run_pipeline's fred_data: series name -> what fetch_fred_data returned
    bls_data,  \* run_pipeline's bls_data
    calls,     \* the calls run_pipeline made in the current / last run, in order
    logged,    \* the phases whose failure the current / last run logged
    pipeOut,   \* how the last run of run_pipeline ended (NoResult: not ended)
    arg,       \* the arguments of the last call of a function of transform.py / a utility
    ret,       \* how that call ended (NoResult: not called)
    saved,     \* source+identifier -> the dict last handed to save_metadata by the test
    workers,   \* the processes running fetch_fred_data side by side: where each is,
               \* the metadata it loaded and the response it got
    mixed      \* whether two of their calls have overlapped in time

retryVars == <<pc, callee, attempt, trace, sleeps, result>>

extractVars == <<FRED_API_KEY, BLS_API_KEY, metadata, files, now, remote, writes, received,
                 seen, requests, sent, reads, changed>>

dimVars == <<dim, dimDf, dimStats>>

dbVars == <<tables, fact, df, stats, runs, dimVars>>

pipeVars == <<bound, pipe, idx, fred_data, bls_data, calls, logged, pipeOut>>

pureVars == <<arg, ret, saved>>

overlapVars == <<workers, mixed>>

vars == <<retryVars, extractVars, dbVars, pipeVars, pureVars, overlapVars>>

----------------------------------------------------------------------------
(* Values *)

None == "None"

\* An outcome of one invocation: a normal return or a raised exception.
Return(v) == [kind |-> "return", type |-> "value", val |-> v]

Raise(t, m) == [kind |-> "raise", type |-> t, val |-> m]

NoResult == [kind |-> "none", type |-> "none", val |-> None]

\* A call: the function and its arguments.
Call(fn, args) == [fn |-> fn, args |-> args]

\* requests.exceptions.* : the transport / HTTP-status failures.
NetworkErrors == {"ConnectionError", "HTTPError"}

\* Every class here derives from Exception.
ExceptionTypes == NetworkErrors \cup {"ValueError", "RuntimeError", "TypeError", "KeyError"}

----------------------------------------------------------------------------
(* fetch_with_retry *)

\* fetch_with_retry(func): the function object it returns, defined by
\* `def wrapper` around func.
fetch_with_retry(func) == [name |-> "wrapper", func |-> func]

\* A handler that takes only ValueError.
CaughtOnlyValueError(exc) == exc.type = "ValueError"

\* `except Exception as e`: the handler takes every Exception subclass.
Caught(exc) == exc.type \in ExceptionTypes

\* A delay that starts at two seconds.
BackoffFromTwo(a) == 2 ^ (a + 1)

\* time.sleep(2 ** attempt)
Backoff(a) == 2 ^ a

\* A handler that wraps the failure in a new error.
ReraisedWrapped(e) == Raise("RuntimeError", e.val)

\* The exception the handler re-raises on the last attempt: `raise e`.
Reraised(e) == e

\* One iteration of wrapper's loop, given the outcome `out` of func(*args).
WrapperStep(out) ==
    LET
        \* range(3)
        MaxAttempts == 3

        \* `if attempt < 2`
        LastRetry == 2
    IN
    /\ trace' = Append(trace, out)
    /\ IF out.kind = "return"
       THEN \* return func(*args, **kwargs)
            /\ result' = out
            /\ pc' = "idle"
            /\ UNCHANGED <<attempt, sleeps>>
       ELSE IF ~Caught(out)
       THEN \* not handled by the except clause: propagates at once
            /\ result' = out
            /\ pc' = "idle"
            /\ UNCHANGED <<attempt, sleeps>>
       ELSE IF attempt < LastRetry
       THEN /\ sleeps' = Append(sleeps, Backoff(attempt))
            /\ IF attempt + 1 < MaxAttempts
               THEN /\ attempt' = attempt + 1
                    /\ pc' = "running"
                    /\ result' = NoResult
               ELSE \* the loop is exhausted: wrapper falls off its end
                    /\ attempt' = attempt
                    /\ pc' = "idle"
                    /\ result' = Return(None)
       ELSE /\ result' = Reraised(out)
            /\ pc' = "idle"
            /\ UNCHANGED <<attempt, sleeps>>

\* Entering wrapper(*args): the loop starts at attempt 0.
WrapperEnter(c) ==
    /\ pc = "idle"
    /\ pc' = "running"
    /\ callee' = c
    /\ attempt' = 0
    /\ trace' = <<>>
    /\ sleeps' = <<>>
    /\ result' = NoResult

----------------------------------------------------------------------------
(* Time *)

\* The number of the last day the model runs to (days are 0..MaxDay).
MaxDay == 1

\* datetime.now().strftime("%Y_%m_%d"): the day.
Datestamp(t) == t

\* datetime.now().isoformat(), to the resolution of the model's clock.
IsoFormat(t) == t

\* Time passes: the next day begins.
Tick ==
    /\ now < MaxDay
    /\ now' = now + 1
    /\ UNCHANGED <<retryVars, FRED_API_KEY, metadata, files, remote, writes, received, seen>>
    /\ UNCHANGED <<BLS_API_KEY, requests, sent, reads, changed>>
    /\ UNCHANGED <<dbVars, pipeVars, pureVars, overlapVars>>

----------------------------------------------------------------------------
(* The remote service of Source A *)

FredIds == {"UNRATE"}

\* ISO dates compare as strings in chronological order.
DateRank(d) == CASE d = "2024-01-01" -> 1
                 [] d = "2024-02-01" -> 2
                 [] OTHER -> 0

SeriesData ==
    LET
        ObsDates == {"2024-01-01", "2024-02-01"}

        ObsValues == {"5.0", "."}

        Observation == [date : ObsDates, value : ObsValues]

        \* The service lists a series in ascending date order (sort_order asc).
        Ascending(obs) ==
            \A i \in 1..(Len(obs) - 1) : DateRank(obs[i].date) < DateRank(obs[i + 1].date)
    IN
    {obs \in UNION {[1..n -> Observation] : n \in 0..Cardinality(ObsDates)} : Ascending(obs)}

\* What the service answers to a request scoped by observation_start.
Scoped(obs, params) ==
    LET
        RECURSIVE Since(_, _)
        \* The observations dated on or after `start`: what observation_start asks for.
        Since(observations, start) ==
            IF observations = <<>> THEN <<>>
            ELSE IF DateRank(Head(observations).date) >= DateRank(start)
                 THEN <<Head(observations)>> \o Since(Tail(observations), start)
                 ELSE Since(Tail(observations), start)
    IN
    IF "observation_start" \in DOMAIN params
    THEN Since(obs, params.observation_start)
    ELSE obs

HttpError == [status |-> 503]

Malformed == [status |-> 200, json |-> [error |-> "unknown series"]]

\* The service revises or extends a series.
RemoteChange ==
    /\ \E sid \in FredIds : \E obs \in SeriesData :
          /\ obs # remote[sid]
          /\ remote' = [remote EXCEPT ![sid] = obs]
          /\ seen' = [seen EXCEPT ![sid].remoteSame = FALSE]
    /\ UNCHANGED <<retryVars, FRED_API_KEY, metadata, files, now, writes, received>>
    /\ UNCHANGED <<BLS_API_KEY, requests, sent, reads, changed>>
    /\ UNCHANGED <<dbVars, pipeVars, pureVars, overlapVars>>

----------------------------------------------------------------------------
(* compute_hash *)

\* hashlib.sha256(...).hexdigest(): collision-free on the payloads of the model.
Sha256(encoded) == <<"sha256">> \o encoded

compute_hash(data) ==
    LET
        \* One observation as json.dumps(sort_keys=True) writes it: "date" before "value".
        DumpObs(o) == <<"{", "date", ":", o.date, ",", "value", ":", o.value, "}">>

        RECURSIVE DumpItems(_)
        DumpItems(obs) ==
            IF obs = <<>> THEN <<>>
            ELSE IF Len(obs) = 1 THEN DumpObs(Head(obs))
            ELSE DumpObs(Head(obs)) \o <<",">> \o DumpItems(Tail(obs))

        \* json.dumps(data, sort_keys=True) of a list of observations.
        JsonDumps(obs) == <<"[">> \o DumpItems(obs) \o <<"]">>
    IN  Sha256(JsonDumps(data))

----------------------------------------------------------------------------
(* compute_hash on any flat dict *)

\* Python's == on dicts: the same keys with the same values, in any order.
DictEq(d, e) == {d[i] : i \in 1..Len(d)} = {e[i] : i \in 1..Len(e)}

\* json.dumps without sort_keys: the items in insertion order.
InsertionOrder(d) == d

\* sort_keys=True: the items by key.
SortKeys(d) ==
    LET
        \* Python's order on the key strings.
        KeyRank(k) == CASE k = "a" -> 1
                        [] k = "b" -> 2
                        [] k = "c" -> 3

        RECURSIVE InsertItem(_, _)
        \* The sorted items `sorted` with one more item in its place.
        InsertItem(sorted, item) ==
            IF sorted = <<>> THEN <<item>>
            ELSE IF KeyRank(item[1]) < KeyRank(Head(sorted)[1]) THEN <<item>> \o sorted
            ELSE <<Head(sorted)>> \o InsertItem(Tail(sorted), item)

        RECURSIVE SortedItems(_)
        SortedItems(dict) ==
            IF dict = <<>> THEN <<>> ELSE InsertItem(SortedItems(Tail(dict)), Head(dict))
    IN  SortedItems(d)

HexDigits == {"0", "1", "2", "3", "4", "5", "6", "7", "8", "9", "a", "b", "c", "d", "e", "f"}

\* compute_hash(data) for a flat dict.
ComputeHash(d) ==
    LET
        \* One item as json.dumps writes it: "key": value.
        Numeral(v) == CASE v = 1 -> "1"
                        [] v = 2 -> "2"

        DumpItem(item) == <<"\"", item[1], "\"", ":", Numeral(item[2])>>

        RECURSIVE DumpDictItems(_)
        DumpDictItems(items) ==
            IF items = <<>> THEN <<>>
            ELSE IF Len(items) = 1 THEN DumpItem(Head(items))
            ELSE DumpItem(Head(items)) \o <<",">> \o DumpDictItems(Tail(items))

        \* json.dumps(data, sort_keys=True).encode() of a flat dict.
        JsonDumpsDict(dict) == <<"{">> \o DumpDictItems(SortKeys(dict)) \o <<"}">>

        DigestLen == 64

        \* The hexadecimal digit standing for one piece of the encoded text.
        HexOf(piece) == CASE piece = "{" -> "1"
                          [] piece = "}" -> "2"
                          [] piece = "\"" -> "3"
                          [] piece = ":" -> "4"
                          [] piece = "," -> "5"
                          [] piece = "a" -> "a"
                          [] piece = "b" -> "b"
                          [] piece = "c" -> "c"
                          [] piece = "1" -> "7"
                          [] piece = "2" -> "8"

        \* hashlib.sha256(encoded).hexdigest(): DigestLen hexadecimal digits, a
        \* function of the encoded text without collisions on the dicts of the model.
        HexDigest(encoded) ==
            [i \in 1..DigestLen |-> IF i <= Len(encoded) THEN HexOf(encoded[i]) ELSE "0"]
    IN  HexDigest(JsonDumpsDict(d))

\* One call compute_hash(d); the call before it is kept for comparison.
CallComputeHash ==
    LET
        \* A dict as Python holds it: its items <<key, value>> in insertion order,
        \* no key twice.
        DictKeys == {"a", "b", "c"}

        DictValues == {1, 2}

        Dicts ==
            {d \in UNION {[1..n -> DictKeys \X DictValues] : n \in 0..Cardinality(DictKeys)} :
                \A i, j \in 1..Len(d) : d[i][1] = d[j][1] => i = j}
    IN
    /\ \E d \in Dicts :
          /\ arg' = <<d>> \o SubSeq(arg, 1, IF Len(arg) > 0 THEN 1 ELSE 0)
          /\ ret' = <<Return(ComputeHash(d))>> \o SubSeq(ret, 1, IF Len(ret) > 0 THEN 1 ELSE 0)
    /\ UNCHANGED <<retryVars, extractVars, dbVars, pipeVars, saved, overlapVars>>

----------------------------------------------------------------------------
(* Metadata and snapshot files *)

\* An empty dict, and a dict's get with its default None.
EmptyDict == <<>>

HasKey(d, k) == k \in DOMAIN d

Get(d, k) == IF HasKey(d, k) THEN d[k] ELSE None

\* A string as the pieces its underscores separate.
Pieces(str) == CASE str = "batch_pull" -> <<"batch", "_", "pull">>
                 [] str = "DOES_NOT_EXIST" -> <<"DOES", "_", "NOT", "_", "EXIST">>
                 [] OTHER -> <<str>>

\* A file name that leaves the source out.
MetadataPathNoSource(source, identifier) ==
    Pieces(identifier) \o <<"_", "metadata.json">>

\* f"{source}_{identifier}_metadata.json"
metadata_path(source, identifier) ==
    Pieces(source) \o <<"_">> \o Pieces(identifier) \o <<"_", "metadata.json">>

\* load_metadata on a metadata directory.
LoadMetadataIn(dir, source, identifier) ==
    LET
        \* json.load(f): the dict of the members of the object.
        JsonLoad(text) == [k \in {member[1] : member \in text} |->
                              (CHOOSE member \in text : member[1] = k)[2]]
    IN
    IF metadata_path(source, identifier) \in DOMAIN dir
    THEN JsonLoad(dir[metadata_path(source, identifier)])
    ELSE EmptyDict

load_metadata(source, identifier) == LoadMetadataIn(metadata, source, identifier)

\* A save that leaves its own file alone in the directory.
SaveMetadataAlone(dir, source, identifier, m) ==
    [k \in {metadata_path(source, identifier)} |-> {<<key, m[key]>> : key \in DOMAIN m}]

\* The metadata directory after save_metadata(source, identifier, m).
save_metadata(dir, source, identifier, m) ==
    LET
        \* json.dump(metadata, f, indent=2): the members "key": value of the object.
        JsonDump(dict) == {<<k, dict[k]>> : k \in DOMAIN dict}
    IN
    [k \in DOMAIN dir \cup {metadata_path(source, identifier)} |->
        IF k = metadata_path(source, identifier) THEN JsonDump(m) ELSE dir[k]]

\* The sources of the program, identifiers and metadata dicts.
MetaSources == {"FRED", "BLS"}

MetaIds == {"TEST", "batch_pull"}

\* One call save_metadata(source, identifier, m).
CallSaveMetadata ==
    LET
        MetaDicts == {[last_hash |-> "abc123", last_observation_date |-> "2024-01-01"],
                      [last_hash |-> "abc123", last_observation_date |-> None],
                      [key |-> "value"]}
    IN
    /\ \E source \in MetaSources, identifier \in MetaIds, m \in MetaDicts :
          /\ metadata' = save_metadata(metadata, source, identifier, m)
          /\ arg' = Call("save_metadata", <<source, identifier>>)
          /\ ret' = Return(None)
          /\ saved' = [k \in DOMAIN saved \cup {<<source, identifier>>} |->
                          IF k = <<source, identifier>> THEN m ELSE saved[k]]
    /\ UNCHANGED <<FRED_API_KEY, BLS_API_KEY, files, now, remote, writes, received, seen,
                   requests, sent, reads, changed>>
    /\ UNCHANGED <<retryVars, dbVars, pipeVars, overlapVars>>

\* One call load_metadata(source, identifier).
CallLoadMetadata ==
    /\ \E source \in MetaSources, identifier \in MetaIds :
          /\ arg' = Call("load_metadata", <<source, identifier>>)
          /\ ret' = Return(load_metadata(source, identifier))
    /\ UNCHANGED <<retryVars, extractVars, dbVars, pipeVars, saved, overlapVars>>

\* A location that leaves the day out.
StoragePathUndated(source, identifier) == <<source, identifier, Datestamp(0)>>

get_storage_path(source, identifier) == <<source, identifier, Datestamp(now)>>

\* A write that leaves a file that exists as it is (mode "x" with the error ignored).
WriteSnapshotKeepsFirst(dir, filepath, data) ==
    [k \in DOMAIN dir \cup {filepath} |-> IF k \in DOMAIN dir THEN dir[k] ELSE data]

\* The raw directory after `with open(filepath, "w") as f: json.dump(data, f)`.
WriteSnapshot(dir, filepath, data) ==
    [k \in DOMAIN dir \cup {filepath} |-> IF k = filepath THEN data ELSE dir[k]]

----------------------------------------------------------------------------
(* fetch_fred_data *)

\* Python truthiness of an optional string.
Truthy(x) == x # None /\ x # ""

\* A credential check placed after the request.
CheckedLate(key) == TRUE

\* `if not KEY: raise ValueError`: what follows runs only with the credential set.
Checked(key) == Truthy(key)

NoData == [none |-> TRUE]

\* params of requests.get: observation_start only when a date is stored.
RequestParamsUnscoped(series_id) ==
    [series_id |-> series_id, api_key |-> FRED_API_KEY, file_type |-> "json"]

RequestParams(series_id) ==
    LET last_observation_date ==
            Get(load_metadata("FRED", series_id), "last_observation_date")
        params == [series_id |-> series_id, api_key |-> FRED_API_KEY,
                   file_type |-> "json"]
    IN  IF Truthy(last_observation_date)
        THEN [k \in DOMAIN params \cup {"observation_start"} |->
                 IF k = "observation_start" THEN last_observation_date ELSE params[k]]
        ELSE params

\* old_hash == new_hash, with old_hash = metadata.get("last_hash")
SameHash(meta, new_hash) == HasKey(meta, "last_hash") /\ meta["last_hash"] = new_hash

\* A variant that takes the first observation's date.
LatestDateFirst(observations, last_observation_date) ==
    IF observations # <<>> THEN observations[1].date ELSE last_observation_date

\* A variant that forgets the stored date when the response is empty.
LatestDateForgets(observations, last_observation_date) ==
    IF observations # <<>> THEN observations[Len(observations)].date ELSE None

\* latest_date: observations[-1]["date"], or the stored date for an empty list.
LatestDate(observations, last_observation_date) ==
    IF observations # <<>>
    THEN observations[Len(observations)].date
    ELSE last_observation_date

\* An ending that removes the metadata files.
UntouchedClears(out) == [out |-> out, metadata |-> <<>>, files |-> files, writes |-> <<>>]

\* What one invocation leaves when it ends before touching any file.
Untouched(out) == [out |-> out, metadata |-> metadata, files |-> files, writes |-> <<>>]

\* A variant that rewrites snapshot and metadata although the hash is unchanged.
UnchangedRewrites(series_id, data) ==
    LET filepath == get_storage_path("FRED", series_id)
    IN  [out |-> Return(None),
         metadata |-> save_metadata(metadata, "FRED", series_id,
                         [last_observation_date |->
                              Get(load_metadata("FRED", series_id), "last_observation_date"),
                          last_hash |-> compute_hash(data["observations"]),
                          last_updated |-> IsoFormat(now)]),
         files |-> WriteSnapshot(files, filepath, data),
         writes |-> <<<<"snapshot", filepath>>, <<"metadata", <<"FRED", series_id>>>>>>]

\* The no-change branch: log and return.
Unchanged(series_id, data) == Untouched(Return(None))

\* The change branch: write today's snapshot, then the metadata.
Changed(series_id, data) ==
    LET meta == load_metadata("FRED", series_id)
        last_observation_date == Get(meta, "last_observation_date")
        new_hash == compute_hash(data["observations"])
        filepath == get_storage_path("FRED", series_id)
        observations == data["observations"]
        latest_date == LatestDate(observations, last_observation_date)
    IN  [out |-> Return(None),
         metadata |-> save_metadata(metadata, "FRED", series_id,
                         [last_observation_date |-> latest_date,
                          last_hash |-> new_hash,
                          last_updated |-> IsoFormat(now)]),
         files |-> WriteSnapshot(files, filepath, data),
         writes |-> <<<<"snapshot", filepath>>, <<"metadata", <<"FRED", series_id>>>>>>]

\* The body of fetch_fred_data from the response on: the outcome of the
\* invocation and the directories it leaves.
FetchFredData(series_id, response) ==
    LET meta == load_metadata("FRED", series_id)
    IN  IF response.status # 200
        THEN Untouched(Raise("HTTPError", "503"))          \* raise_for_status()
        ELSE LET data == response.json
             IN  IF ~HasKey(data, "observations")
                 THEN Untouched(Raise("ValueError", "Malformed FRED response"))
                 ELSE IF SameHash(meta, compute_hash(data["observations"]))
                      THEN Unchanged(series_id, data)
                      ELSE Changed(series_id, data)

\* The effect of one invocation r of the body inside the wrapper's loop.
FredApply(series_id, r, data, params) ==
    LET
        \* How a finished call relates to the one before it (for the same series).
        Relation(sid, returned, payload, sent_params) ==
            LET honoured == returned /\ payload["observations"] = Scoped(remote[sid], sent_params)
            IN  [samePayload |-> returned /\ received[sid] = payload,
                 honoured |-> honoured,
                 unchangedHonoured |-> /\ honoured
                                       /\ seen[sid].honoured
                                       /\ seen[sid].remoteSame,
                 remoteSame |-> TRUE]
    IN
    /\ WrapperStep(r.out)
    /\ metadata' = r.metadata
    /\ files' = r.files
    /\ writes' = writes \o r.writes
    /\ changed' = IF r.writes # <<>> THEN changed \cup {<<"FRED", series_id, now>>} ELSE changed
    /\ IF pc' = "idle"
       THEN LET returned == r.out.kind = "return"
            IN  /\ received' = [received EXCEPT ![series_id] =
                                   IF returned THEN data ELSE NoData]
                /\ seen' = [seen EXCEPT ![series_id] =
                               Relation(series_id, returned, data, params)]
       ELSE UNCHANGED <<received, seen>>
    /\ UNCHANGED <<callee, FRED_API_KEY, BLS_API_KEY, now, remote>>
    /\ UNCHANGED <<dbVars, pipeVars, pureVars, overlapVars>>

CallFred ==
    /\ \E series_id \in FredIds :
          WrapperEnter([op |-> "fetch_fred_data", series_id |-> series_id])
    /\ writes' = <<>>
    /\ requests' = 0
    /\ sent' = NoData
    /\ reads' = 0
    /\ UNCHANGED <<FRED_API_KEY, BLS_API_KEY, metadata, files, now, remote, received, seen>>
    /\ UNCHANGED changed
    /\ UNCHANGED <<dbVars, pipeVars, pureVars, overlapVars>>

\* One attempt of the wrapped fetch_fred_data.
FredAttempt ==
    LET
        Payload(obs) == [status |-> 200, json |-> [observations |-> obs]]

        \* The answers requests.get can give for one request: a transport / HTTP failure,
        \* a body without the observations field, the series scoped as the request asks,
        \* or the whole series whatever the request asks (as the test suite's mock does).
        Responses(sid, params) ==
            {HttpError, Malformed, Payload(Scoped(remote[sid], params)), Payload(remote[sid])}
    IN
    /\ pc = "running"
    /\ callee.op = "fetch_fred_data"
    /\ LET series_id == callee.series_id
       IN  IF ~Truthy(FRED_API_KEY)
           THEN FredApply(series_id,
                          Untouched(Raise("ValueError", "FRED_API_KEY not set.")),
                          NoData, EmptyDict)
           ELSE LET params == RequestParams(series_id)
                IN  \E response \in Responses(series_id, params) :
                       FredApply(series_id, FetchFredData(series_id, response),
                                 IF response.status = 200 THEN response.json ELSE NoData,
                                 params)
    \* load_metadata and requests.get come after the credential check.
    /\ reads' = IF Checked(FRED_API_KEY) THEN reads + 1 ELSE reads
    /\ requests' = IF Checked(FRED_API_KEY) THEN requests + 1 ELSE requests
    /\ sent' = IF Checked(FRED_API_KEY) THEN RequestParams(callee.series_id) ELSE sent

----------------------------------------------------------------------------
(* fetch_fred_data run by several processes side by side: each statement  *)
(* that reads or writes a file is a step of its own                        *)

\* Two processes, each calling fetch_fred_data once.
Workers == {"first", "second"}

\* metadata = load_metadata("FRED", series_id)
WorkerLoad(p) ==
    LET
        \* The processes that are inside a call.
        Busy == {q \in Workers : workers[q].pc # "idle"}
    IN
    /\ workers[p].pc = "idle"
    /\ ~workers[p].called
    /\ Checked(FRED_API_KEY)
    /\ \E series_id \in FredIds :
          workers' = [workers EXCEPT ![p] =
                         [pc |-> "loaded", called |-> TRUE,
                          series_id |-> series_id,
                          meta |-> load_metadata("FRED", series_id), data |-> NoData]]
    /\ mixed' = (mixed \/ Busy # {})
    /\ UNCHANGED <<retryVars, extractVars, dbVars, pipeVars, pureVars>>

\* requests.get with the parameters built from the metadata loaded, then the
\* checks of the response and the comparison of the hashes.
WorkerRequest(p) ==
    LET w == workers[p]
        last_observation_date == Get(w.meta, "last_observation_date")
        params == IF Truthy(last_observation_date)
                  THEN [series_id |-> w.series_id, observation_start |-> last_observation_date]
                  ELSE [series_id |-> w.series_id]
        observations == Scoped(remote[w.series_id], params)
        Answers == {HttpError, Malformed, [status |-> 200, json |-> [observations |-> observations]]}
    IN
    /\ w.pc = "loaded"
    /\ \E response \in Answers :
          IF response.status # 200 \/ ~HasKey(response.json, "observations")
          THEN workers' = [workers EXCEPT ![p].pc = "idle"]         \* the call raises
          ELSE IF SameHash(w.meta, compute_hash(response.json["observations"]))
               THEN workers' = [workers EXCEPT ![p].pc = "idle"]    \* no change: return
               ELSE workers' = [workers EXCEPT ![p].pc = "fetched", ![p].data = response.json]
    /\ UNCHANGED <<retryVars, extractVars, dbVars, pipeVars, pureVars, mixed>>

\* with open(filepath, "w") as f: json.dump(data, f)
WorkerWrite(p) ==
    LET w == workers[p]
        filepath == get_storage_path("FRED", w.series_id)
    IN
    /\ w.pc = "fetched"
    /\ files' = WriteSnapshot(files, filepath, w.data)
    /\ writes' = Append(writes, <<"snapshot", filepath>>)
    /\ workers' = [workers EXCEPT ![p].pc = "written"]
    /\ UNCHANGED <<FRED_API_KEY, BLS_API_KEY, metadata, now, remote, received, seen,
                   requests, sent, reads, changed>>
    /\ UNCHANGED <<retryVars, dbVars, pipeVars, pureVars, mixed>>

\* save_metadata("FRED", series_id, {...}), the last statement that touches a file.
WorkerSave(p) ==
    LET w == workers[p]
        observations == w.data["observations"]
    IN
    /\ w.pc = "written"
    /\ metadata' = save_metadata(metadata, "FRED", w.series_id,
                      [last_observation_date |->
                           LatestDate(observations, Get(w.meta, "last_observation_date")),
                       last_hash |-> compute_hash(observations),
                       last_updated |-> IsoFormat(now)])
    /\ writes' = Append(writes, <<"metadata", <<"FRED", w.series_id>>>>)
    /\ workers' = [workers EXCEPT ![p].pc = "idle"]
    /\ UNCHANGED <<FRED_API_KEY, BLS_API_KEY, files, now, remote, received, seen,
                   requests, sent, reads, changed>>
    /\ UNCHANGED <<retryVars, dbVars, pipeVars, pureVars, mixed>>

WorkerStep == \E p \in Workers : WorkerLoad(p) \/ WorkerRequest(p) \/ WorkerWrite(p) \/ WorkerSave(p)

----------------------------------------------------------------------------
(* fetch_bls_data *)

\* identifier = "batch_pull"
BlsIdentifier == "batch_pull"

\* The series of the batch, and the observation lists the service can hold for it.
BlsSeriesId == "CUUR0000SA0"

\* A response body with status REQUEST_SUCCEEDED.
BlsBatch(obs) ==
    [status |-> "REQUEST_SUCCEEDED",
     Results |-> [series |-> <<[seriesID |-> BlsSeriesId, data |-> obs]>>]]

\* The json payload of requests.post.
BlsPayload ==
    [seriesid |-> <<BlsSeriesId>>, startyear |-> "2021", endyear |-> "2026",
     registrationkey |-> BLS_API_KEY]

\* compute_hash(data) of a whole batch response.
compute_hash_batch(data) ==
    LET
        \* json.dumps(data, sort_keys=True) of a batch: "Results" sorts before "status".
        DumpBlsObs(o) ==
            <<"{", "period", ":", o.period, ",", "value", ":", o.value, ",", "year", ":", o.year, "}">>

        RECURSIVE DumpBlsItems(_)
        DumpBlsItems(obs) ==
            IF obs = <<>> THEN <<>>
            ELSE IF Len(obs) = 1 THEN DumpBlsObs(Head(obs))
            ELSE DumpBlsObs(Head(obs)) \o <<",">> \o DumpBlsItems(Tail(obs))

        JsonDumpsBatch(payload) ==
            <<"{", "Results", ":", "{", "series", ":", "[", "{", "data", ":", "[">>
                \o DumpBlsItems(payload["Results"]["series"][1]["data"])
                \o <<"]", ",", "seriesID", ":", payload["Results"]["series"][1]["seriesID"], "}", "]", "}",
                     ",", "status", ":", payload["status"], "}">>
    IN  Sha256(JsonDumpsBatch(data))

\* A variant that rewrites snapshot and metadata although the hash is unchanged.
BlsUnchangedRewrites(data) ==
    LET filepath == get_storage_path("BLS", BlsIdentifier)
    IN  [out |-> Return(None),
         metadata |-> save_metadata(metadata, "BLS", BlsIdentifier,
                         [last_hash |-> compute_hash_batch(data),
                          last_updated |-> IsoFormat(now)]),
         files |-> WriteSnapshot(files, filepath, data),
         writes |-> <<<<"snapshot", filepath>>, <<"metadata", <<"BLS", BlsIdentifier>>>>>>]

\* The no-change branch: log and return.
BlsUnchanged(data) == Untouched(Return(None))

\* The change branch: write today's snapshot, then the metadata.
BlsChanged(data) ==
    LET filepath == get_storage_path("BLS", BlsIdentifier)
    IN  [out |-> Return(None),
         metadata |-> save_metadata(metadata, "BLS", BlsIdentifier,
                         [last_hash |-> compute_hash_batch(data),
                          last_updated |-> IsoFormat(now)]),
         files |-> WriteSnapshot(files, filepath, data),
         writes |-> <<<<"snapshot", filepath>>, <<"metadata", <<"BLS", BlsIdentifier>>>>>>]

\* The body of fetch_bls_data from the response on.
FetchBlsData(response) ==
    LET meta == load_metadata("BLS", BlsIdentifier)
    IN  IF response.status # 200
        THEN Untouched(Raise("HTTPError", "503"))          \* raise_for_status()
        ELSE LET data == response.json
             IN  IF Get(data, "status") # "REQUEST_SUCCEEDED"
                 THEN Untouched(Raise("RuntimeError", "BLS API Error"))
                 ELSE IF SameHash(meta, compute_hash_batch(data))
                      THEN BlsUnchanged(data)
                      ELSE BlsChanged(data)

\* The effect of one invocation r of the body inside the wrapper's loop.
BlsApply(r, data) ==
    /\ WrapperStep(r.out)
    /\ metadata' = r.metadata
    /\ files' = r.files
    /\ writes' = writes \o r.writes
    /\ changed' = IF r.writes # <<>> THEN changed \cup {<<"BLS", BlsIdentifier, now>>}
                  ELSE changed
    /\ IF pc' = "idle"
       THEN received' = [received EXCEPT ![BlsIdentifier] =
                            IF r.out.kind = "return" THEN data ELSE NoData]
       ELSE UNCHANGED received
    /\ UNCHANGED <<callee, FRED_API_KEY, BLS_API_KEY, now, remote, seen>>
    /\ UNCHANGED <<dbVars, pipeVars, pureVars, overlapVars>>

CallBls ==
    /\ WrapperEnter([op |-> "fetch_bls_data"])
    /\ writes' = <<>>
    /\ requests' = 0
    /\ sent' = NoData
    /\ reads' = 0
    /\ UNCHANGED <<FRED_API_KEY, BLS_API_KEY, metadata, files, now, remote, received, seen>>
    /\ UNCHANGED changed
    /\ UNCHANGED <<dbVars, pipeVars, pureVars, overlapVars>>

\* One attempt of the wrapped fetch_bls_data.
BlsAttempt ==
    LET
        BlsObservations ==
            {<<>>, <<[year |-> "2024", period |-> "M01", value |-> "310.3"]>>}

        \* A response body reporting an application-level failure.
        BlsRefused == [status |-> "REQUEST_NOT_PROCESSED", message |-> "daily threshold reached"]

        \* The answers requests.post can give: a transport / HTTP failure, a refusal,
        \* or a batch.
        BlsResponses ==
            {HttpError, [status |-> 200, json |-> BlsRefused]}
                \cup {[status |-> 200, json |-> BlsBatch(obs)] : obs \in BlsObservations}
    IN
    /\ pc = "running"
    /\ callee.op = "fetch_bls_data"
    /\ IF ~Truthy(BLS_API_KEY)
       THEN BlsApply(Untouched(Raise("ValueError", "BLS_API_KEY not set.")), NoData)
       ELSE \E response \in BlsResponses :
               BlsApply(FetchBlsData(response),
                        IF response.status = 200 THEN response.json ELSE NoData)
    \* load_metadata and requests.post come after the credential check.
    /\ reads' = IF Checked(BLS_API_KEY) THEN reads + 1 ELSE reads
    /\ requests' = IF Checked(BLS_API_KEY) THEN requests + 1 ELSE requests
    /\ sent' = IF Checked(BLS_API_KEY) THEN BlsPayload ELSE sent

----------------------------------------------------------------------------
(* The loader: ensure_tables_exist and upsert_observations *)

\* The longest DataFrame handed to upsert_observations.
MaxRows == 2

\* A missing value: NaN in a DataFrame, NULL in the table. A number is a
\* one-element tuple holding it, counted in units of half the tolerance.
NaN == <<>>

Num(x) == <<x>>

\* 1e-9, in the units of the values.
Tolerance == 2

FactIds == {"UNRATE", "FEDFUNDS"}

Labels == {[series_name |-> "UNRATE", source |-> "FRED"],
           [series_name |-> "CPI_URBAN", source |-> "BLS"]}

\* The rows a DataFrame of the transform layer's schema can hold.
Rows ==
    LET
        Timestamps == {[date |-> "2024-01-01", time |-> "00:00:00"]}

        FactValues == {NaN, Num(0), Num(1), Num(3)}
    IN
    {[series_id |-> i, series_name |-> l.series_name, date |-> t, value |-> v,
      source |-> l.source] : i \in FactIds, l \in Labels, t \in Timestamps, v \in FactValues}

\* pd.isna
IsNa(x) == x = NaN

Abs(x) == IF x < 0 THEN -x ELSE x

\* A comparison without the tolerance.
NanEqualExact(a, b) == a = b

\* A comparison that reads a missing value as 0.
NanEqualsZero(a, b) ==
    Abs((IF IsNa(a) THEN 0 ELSE a[1]) - (IF IsNa(b) THEN 0 ELSE b[1])) < Tolerance

\* _nan_equal
nan_equal(a, b) ==
    IF IsNa(a) /\ IsNa(b) THEN TRUE
    ELSE IF IsNa(a) \/ IsNa(b) THEN FALSE
    ELSE Abs(a[1] - b[1]) < Tolerance

\* key = (row["series_id"], _to_date_str(row["date"]))
RowKey(row) ==
    LET
        \* _to_date_str: pd.Timestamp(value).strftime("%Y-%m-%d")
        to_date_str(value) == value.date
    IN  <<row["series_id"], to_date_str(row["date"])>>

\* A classification that rewrites every row whose key is stored.
ClassifyAlwaysUpdates(existing_map, row) ==
    IF RowKey(row) \notin DOMAIN existing_map THEN "inserted" ELSE "updated"

\* The bucket the classification loop puts a row in.
Classify(existing_map, row) ==
    IF RowKey(row) \notin DOMAIN existing_map THEN "inserted"
    ELSE IF nan_equal(row["value"], existing_map[RowKey(row)]) THEN "unchanged"
    ELSE "updated"

\* The columns a stored row holds beside its key.
Stored(row) ==
    [value |-> row["value"], series_name |-> row["series_name"], source |-> row["source"]]

\* An insert into a table that has no primary key to violate.
InsertNeverFails(to_insert) == FALSE

\* insert_df.to_sql(..., if_exists="append"): one transaction; a repeated
\* primary key fails it as a whole.
InsertFails(to_insert) ==
    \E i, j \in 1..Len(to_insert) : i # j /\ RowKey(to_insert[i]) = RowKey(to_insert[j])

\* The table after the insert: the new rows under their keys.
InsertAll(table, to_insert) ==
    LET keys == {RowKey(to_insert[i]) : i \in 1..Len(to_insert)}
    IN  [k \in DOMAIN table \cup keys |->
            IF k \in DOMAIN table THEN table[k]
            ELSE Stored(to_insert[CHOOSE i \in 1..Len(to_insert) : RowKey(to_insert[i]) = k])]

\* upsert_observations(d, engine) on the table tbl: the outcome and the table left.
UpsertObservations(tbl, d) ==
    LET
        \* existing_map: the stored value of every stored key.
        ExistingMap(table) == [k \in DOMAIN table |-> table[k].value]

        RECURSIVE Tally(_, _, _)
        \* The classification loop's counters after the rows of d.
        Tally(existing_map, frame, st) ==
            IF frame = <<>> THEN st
            ELSE LET bucket == Classify(existing_map, Head(frame))
                 IN  Tally(existing_map, Tail(frame), [st EXCEPT ![bucket] = @ + 1])

        RECURSIVE UpdateAll(_, _)
        \* The UPDATE statements, one per row of to_update, in order.
        UpdateAll(table, to_update) ==
            IF to_update = <<>> THEN table
            ELSE UpdateAll([table EXCEPT ![RowKey(Head(to_update))] = Stored(Head(to_update))],
                           Tail(to_update))
    IN
    IF "fact_economic_observations" \notin tables
    THEN [out |-> Raise("OperationalError", "no such table"), fact |-> tbl]
    ELSE LET existing_map == ExistingMap(tbl)
             st == Tally(existing_map, d, [inserted |-> 0, updated |-> 0, unchanged |-> 0])
             to_insert == SelectSeq(d, LAMBDA row : Classify(existing_map, row) = "inserted")
             to_update == SelectSeq(d, LAMBDA row : Classify(existing_map, row) = "updated")
         IN  IF to_insert # <<>> /\ InsertFails(to_insert)
             THEN [out |-> Raise("IntegrityError", "UNIQUE constraint failed"), fact |-> tbl]
             ELSE [out |-> Return(st),
                   fact |-> UpdateAll(IF to_insert # <<>> THEN InsertAll(tbl, to_insert)
                                      ELSE tbl,
                                      to_update)]

\* upsert_observations(d, engine) on the table tbl when the database fails at
\* the statement `at` (it is locked, or the connection goes away). A failing
\* insert rolls back to_sql's own transaction. A failing UPDATE leaves the
\* second connection without its commit, which rolls the updates back; the
\* insert was committed by to_sql before the updates began. A statement the
\* call does not come to cannot fail it.
UpsertObservationsFailing(tbl, d, at) ==
    LET existing_map == [k \in DOMAIN tbl |-> tbl[k].value]
        to_insert == SelectSeq(d, LAMBDA row : Classify(existing_map, row) = "inserted")
        to_update == SelectSeq(d, LAMBDA row : Classify(existing_map, row) = "updated")
        failed == Raise("OperationalError", "database is locked")
    IN
    IF "fact_economic_observations" \notin tables THEN UpsertObservations(tbl, d)
    ELSE IF at = "insert" /\ to_insert # <<>>
    THEN [out |-> failed, fact |-> tbl]
    ELSE IF at = "update" /\ to_update # <<>>
              /\ ~(to_insert # <<>> /\ InsertFails(to_insert))
    THEN [out |-> failed,
          fact |-> IF to_insert # <<>> THEN InsertAll(tbl, to_insert) ELSE tbl]
    ELSE UpsertObservations(tbl, d)

TableNames == {"fact_economic_observations", "dim_series"}

\* CREATE TABLE name: an error when the table exists.
CreateTable(db, name) ==
    IF db.out.kind = "raise" THEN db
    ELSE IF name \in db.tables
    THEN [db EXCEPT !.out = Raise("OperationalError", "table already exists")]
    ELSE [db EXCEPT !.tables = @ \cup {name}, !.rows[name] = <<>>]

\* CREATE TABLE IF NOT EXISTS name: a new empty table when there is none of
\* that name, nothing otherwise.
CreateTableIfNotExists(db, name) ==
    IF db.out.kind = "raise" \/ name \in db.tables THEN db
    ELSE [db EXCEPT !.tables = @ \cup {name}, !.rows[name] = <<>>]

\* One call ensure_tables_exist(engine): the two statements, and commit.
EnsureTablesExist ==
    LET
        \* The database as the statements of one connection see it, and how the
        \* statements so far ended.
        Database ==
            [tables |-> tables,
             rows |-> [fact_economic_observations |-> fact, dim_series |-> dim],
             out |-> Return(None)]
    IN
    /\ LET db == CreateTableIfNotExists(
                     CreateTableIfNotExists(Database, "fact_economic_observations"),
                     "dim_series")
       IN  /\ tables' = db.tables
           /\ fact' = db.rows["fact_economic_observations"]
           /\ dim' = db.rows["dim_series"]
           /\ arg' = Call("ensure_tables_exist", <<>>)
           /\ ret' = db.out
    /\ UNCHANGED <<df, stats, runs, dimDf, dimStats, saved, overlapVars>>
    /\ UNCHANGED <<retryVars, extractVars, pipeVars>>

\* The caller starts a new DataFrame.
NewTable ==
    /\ stats # NoResult
    /\ df' = <<>>
    /\ stats' = NoResult
    /\ runs' = 0
    /\ UNCHANGED <<tables, fact>>
    /\ UNCHANGED <<retryVars, extractVars, dimVars, pipeVars, pureVars, overlapVars>>

\* The caller adds a row to the DataFrame it is building.
AddRow ==
    /\ stats = NoResult
    /\ Len(df) < MaxRows
    /\ \E row \in Rows : df' = Append(df, row)
    /\ UNCHANGED <<tables, fact, stats, runs>>
    /\ UNCHANGED <<retryVars, extractVars, dimVars, pipeVars, pureVars, overlapVars>>

\* One call upsert_observations(df, engine).
Upsert ==
    /\ LET r == UpsertObservations(fact, df)
       IN  /\ fact' = r.fact
           /\ stats' = r.out
           /\ runs' = IF r.out.kind = "return"
                      THEN (IF runs < 2 THEN runs + 1 ELSE runs)
                      ELSE 0
    /\ UNCHANGED <<tables, df>>
    /\ UNCHANGED <<retryVars, extractVars, dimVars, pipeVars, pureVars, overlapVars>>

\* One call upsert_observations(df, engine) during which the database fails
\* at the batch insert or at a row update.
UpsertInterrupted ==
    /\ \E at \in {"insert", "update"} :
         LET r == UpsertObservationsFailing(fact, df, at)
         IN  /\ fact' = r.fact
             /\ stats' = r.out
             /\ runs' = IF r.out.kind = "return"
                        THEN (IF runs < 2 THEN runs + 1 ELSE runs)
                        ELSE 0
    /\ UNCHANGED <<tables, df>>
    /\ UNCHANGED <<retryVars, extractVars, dimVars, pipeVars, pureVars, overlapVars>>

----------------------------------------------------------------------------
(* The loader: upsert_dim_series *)

\* The rows a dimension DataFrame can hold.
DimRows ==
    {[series_id |-> i, series_name |-> l.series_name, source |-> l.source] :
        i \in FactIds, l \in Labels}

\* The columns a stored dimension row holds beside its key.
DimStored(row) == [series_name |-> row["series_name"], source |-> row["source"]]

\* A write with if_exists="replace": the table holds the new rows only.
DimReplaceAll(tbl, new_rows) ==
    [k \in {new_rows[i]["series_id"] : i \in 1..Len(new_rows)} |->
        DimStored(new_rows[CHOOSE i \in 1..Len(new_rows) : new_rows[i]["series_id"] = k])]

\* new_rows.to_sql("dim_series", engine, if_exists="append", index=False)
DimInsertAll(tbl, new_rows) ==
    LET keys == {new_rows[i]["series_id"] : i \in 1..Len(new_rows)}
    IN  [k \in DOMAIN tbl \cup keys |->
            IF k \in DOMAIN tbl THEN tbl[k]
            ELSE DimStored(new_rows[CHOOSE i \in 1..Len(new_rows) :
                                       new_rows[i]["series_id"] = k])]

\* upsert_dim_series(d, engine) on the table tbl: the outcome and the table left.
UpsertDimSeries(tbl, d) ==
    LET
        \* existing_ids
        ExistingIds(table) == DOMAIN table

        \* new_rows = df[~df["series_id"].isin(existing_ids)]
        NewRows(existing_ids, frame) == SelectSeq(frame, LAMBDA row : row["series_id"] \notin existing_ids)

        \* new_rows.to_sql fails as a whole on a repeated or already stored primary key.
        DimInsertFails(table, new_rows) ==
            \/ \E i, j \in 1..Len(new_rows) :
                  i # j /\ new_rows[i]["series_id"] = new_rows[j]["series_id"]
            \/ \E i \in 1..Len(new_rows) : new_rows[i]["series_id"] \in DOMAIN table
    IN
    IF "dim_series" \notin tables
    THEN [out |-> Raise("OperationalError", "no such table"), dim |-> tbl]
    ELSE LET new_rows == NewRows(ExistingIds(tbl), d)
             unchanged == Len(d) - Len(new_rows)
         IN  IF new_rows = <<>>
             THEN [out |-> Return([inserted |-> 0, unchanged |-> unchanged]), dim |-> tbl]
             ELSE IF DimInsertFails(tbl, new_rows)
             THEN [out |-> Raise("IntegrityError", "UNIQUE constraint failed"), dim |-> tbl]
             ELSE [out |-> Return([inserted |-> Len(new_rows), unchanged |-> unchanged]),
                   dim |-> DimInsertAll(tbl, new_rows)]

\* The caller starts a new dimension DataFrame.
NewDimTable ==
    /\ dimStats # NoResult
    /\ dimDf' = <<>>
    /\ dimStats' = NoResult
    /\ UNCHANGED <<tables, dim>>
    /\ UNCHANGED <<retryVars, extractVars, fact, df, stats, runs, pipeVars, pureVars, overlapVars>>

\* The caller adds a row to the dimension DataFrame it is building.
AddDimRow ==
    /\ dimStats = NoResult
    /\ Len(dimDf) < MaxRows
    /\ \E row \in DimRows : dimDf' = Append(dimDf, row)
    /\ UNCHANGED <<tables, dim, dimStats>>
    /\ UNCHANGED <<retryVars, extractVars, fact, df, stats, runs, pipeVars, pureVars, overlapVars>>

\* One call upsert_dim_series(dimDf, engine).
UpsertDim ==
    /\ LET r == UpsertDimSeries(dim, dimDf)
       IN  /\ dim' = r.dim
           /\ dimStats' = r.out
    /\ UNCHANGED <<tables, dimDf>>
    /\ UNCHANGED <<retryVars, extractVars, fact, df, stats, runs, pipeVars, pureVars, overlapVars>>

----------------------------------------------------------------------------
(* transform.py: parse_fred_observations *)

\* pd.to_datetime on a date string.
ToDatetime(str) == [date |-> str, time |-> "00:00:00"]

parse_fred_observations(data, series_id, series_name) ==
    LET
        \* pd.to_numeric(..., errors="coerce"): the number (here in tenths), NaN for
        \* what is not a number.
        ToNumeric(str) == CASE str = "5.0" -> Num(50)
                            [] str = "5.2" -> Num(52)
                            [] OTHER -> NaN

        \* pd.DataFrame(records)[["date", "value"]]: a frame of no records has no
        \* columns to select.
        SelectDateValue(records) ==
            IF records = <<>>
            THEN Raise("KeyError", "None of [Index(['date', 'value'])] are in the [columns]")
            ELSE Return([i \in 1..Len(records) |->
                            [date |-> records[i].date, value |-> records[i].value]])
    IN
    IF ~HasKey(data, "observations") THEN Raise("KeyError", "observations")
    ELSE LET selected == SelectDateValue(data["observations"])
         IN  IF selected.kind = "raise" THEN selected
             ELSE Return([i \in 1..Len(selected.val) |->
                             [series_id |-> series_id,
                              series_name |-> series_name,
                              date |-> ToDatetime(selected.val[i].date),
                              value |-> ToNumeric(selected.val[i].value),
                              source |-> "FRED"]])

\* The call is made.
CallParseFred ==
    /\ arg.fn = "parse_fred_observations"
    /\ ret = NoResult
    /\ ret' = parse_fred_observations(arg.args[1], arg.args[2], arg.args[3])
    /\ UNCHANGED <<retryVars, extractVars, dbVars, pipeVars, arg, saved, overlapVars>>

----------------------------------------------------------------------------
(* transform.py: parse_bls_batch *)

\* The order of timestamps.
Ordinal(ts) == CASE ts.date = "2024-01-01" -> 1
                 [] ts.date = "2024-02-01" -> 2
                 [] ts.date = "2024-03-01" -> 3

RECURSIVE Concat(_)
\* pd.concat(frames, ignore_index=True) of frames that are not all empty.
Concat(frames) == IF frames = <<>> THEN <<>> ELSE Head(frames) \o Concat(Tail(frames))

\* The ways parse_bls_batch(data, series_map) can end.
parse_bls_batch(data, series_map) ==
    LET
        \* int(obs["year"]) and int(obs["period"][1:])
        IntOfYear(str) == CASE str = "2024" -> 2024

        IntOfPeriod(period) == CASE period = "M01" -> 1
                                 [] period = "M02" -> 2
                                 [] period = "M03" -> 3

        \* pd.Timestamp(year=..., month=..., day=1)
        Timestamp(year, month, day) ==
            [date |-> CASE year = 2024 /\ month = 1 /\ day = 1 -> "2024-01-01"
                        [] year = 2024 /\ month = 2 /\ day = 1 -> "2024-02-01"
                        [] year = 2024 /\ month = 3 /\ day = 1 -> "2024-03-01",
             time |-> "00:00:00"]

        \* float(obs["value"]), in tenths.
        Float(str) == CASE str = "100" -> Num(1000)

        \* {v: k for k, v in series_map.items()}.get(series_id, series_id)
        NameOf(names, series_id) ==
            IF \E k \in DOMAIN names : names[k] = series_id
            THEN CHOOSE k \in DOMAIN names : names[k] = series_id
            ELSE series_id

        \* The rows of one series, in the order of its data.
        BlsRows(series, names) ==
            [i \in 1..Len(series["data"]) |->
                [series_id |-> series["seriesID"],
                 series_name |-> NameOf(names, series["seriesID"]),
                 date |-> Timestamp(IntOfYear(series["data"][i].year),
                                    IntOfPeriod(series["data"][i].period), 1),
                 value |-> Float(series["data"][i].value),
                 source |-> "BLS"]]

        RECURSIVE Arranged(_, _)
        \* The ways to put the rows at the positions `left` in ascending date order.
        Arranged(rows, left) ==
            IF left = {} THEN {<<>>}
            ELSE LET first == {i \in left : \A j \in left : Ordinal(rows[i].date) <= Ordinal(rows[j].date)}
                 IN  UNION {{<<rows[i]>> \o rest : rest \in Arranged(rows, left \ {i})} : i \in first}

        \* df.sort_values("date"): quicksort, rows of equal date in no defined order.
        SortValuesByDate(frames) == Arranged(Concat(frames), 1..Len(Concat(frames)))
    IN
    IF data = NoData THEN {Raise("TypeError", "'NoneType' object is not subscriptable")}
    ELSE IF ~HasKey(data, "Results") THEN {Raise("KeyError", "Results")}
    ELSE LET series == data["Results"]["series"]
             frames == [k \in 1..Len(series) |-> BlsRows(series[k], series_map)]
         IN  IF frames = <<>>
             THEN {Raise("ValueError", "No objects to concatenate")}       \* pd.concat([])
             ELSE IF Concat(frames) = <<>>
             THEN {Raise("KeyError", "date")}       \* no frame has a column to sort by
             ELSE {Return(table) : table \in SortValuesByDate(frames)}

\* The call is made.
CallParseBls ==
    /\ arg.fn = "parse_bls_batch"
    /\ ret = NoResult
    /\ ret' \in parse_bls_batch(arg.args[1], arg.args[2])
    /\ UNCHANGED <<retryVars, extractVars, dbVars, pipeVars, arg, saved, overlapVars>>

----------------------------------------------------------------------------
(* transform.py: build_dim_series *)

\* [{"series_id": sid, "series_name": name, "source": source} for name, sid in series.items()]
DimRowsOf(series, source) ==
    [i \in 1..Len(series) |->
        [series_id |-> series[i][2], series_name |-> series[i][1], source |-> source]]

\* A table with the Source-B rows first.
BuildDimBlsFirst(fred_series, bls_series) ==
    Return(DimRowsOf(bls_series, "BLS") \o DimRowsOf(fred_series, "FRED"))

build_dim_series(fred_series, bls_series) ==
    Return(DimRowsOf(fred_series, "FRED") \o DimRowsOf(bls_series, "BLS"))

\* The call is made.
CallBuildDim ==
    /\ arg.fn = "build_dim_series"
    /\ ret = NoResult
    /\ ret' = build_dim_series(arg.args[1], arg.args[2])
    /\ UNCHANGED <<retryVars, extractVars, dbVars, pipeVars, arg, saved, overlapVars>>

----------------------------------------------------------------------------
(* transform.py: combine_fact_tables *)

TidyTables(series_id, source) ==
    LET
        \* Tidy tables of one series: up to MaxRows rows in any order.
        TidyCells == {[date |-> "2024-01-01", value |-> Num(50)],
                      [date |-> "2024-01-01", value |-> NaN],
                      [date |-> "2024-02-01", value |-> Num(50)]}

        TidyRow(sid, src, cell) ==
            [series_id |-> sid, series_name |-> sid,
             date |-> ToDatetime(cell.date), value |-> cell.value, source |-> src]
    IN
    {[i \in 1..Len(cells) |-> TidyRow(series_id, source, cells[i])] :
        cells \in UNION {[1..n -> TidyCells] : n \in 0..MaxRows}}

RECURSIVE InsertBeforeEquals(_, _)
InsertBeforeEquals(sorted, row) ==
    IF sorted = <<>> THEN <<row>>
    ELSE IF Ordinal(row.date) <= Ordinal(Head(sorted).date) THEN <<row>> \o sorted
    ELSE <<Head(sorted)>> \o InsertBeforeEquals(Tail(sorted), row)

RECURSIVE SortTiesReversed(_)
\* The rows ascending by date, rows of equal date in reverse order.
SortTiesReversed(rows) ==
    IF rows = <<>> THEN <<>>
    ELSE InsertBeforeEquals(SortTiesReversed(SubSeq(rows, 1, Len(rows) - 1)), rows[Len(rows)])

\* A combiner whose sort does not keep the order of rows of equal date.
CombineUnstable(fred_frames, bls_frame) ==
    Return(SortTiesReversed(Concat(fred_frames \o <<bls_frame>>)))

\* combine(tables_A, table_B): concatenate, then sort ascending by date
\* with a stable sort.
combine_fact_tables(fred_frames, bls_frame) ==
    LET
        RECURSIVE InsertAfterEquals(_, _)
        \* The sorted rows with one more row, put after the rows of its date.
        InsertAfterEquals(sorted, row) ==
            IF sorted = <<>> THEN <<row>>
            ELSE IF Ordinal(row.date) < Ordinal(Head(sorted).date) THEN <<row>> \o sorted
            ELSE <<Head(sorted)>> \o InsertAfterEquals(Tail(sorted), row)

        RECURSIVE StableSortByDate(_)
        \* The rows ascending by date, rows of equal date in the order they had.
        StableSortByDate(rows) ==
            IF rows = <<>> THEN <<>>
            ELSE InsertAfterEquals(StableSortByDate(SubSeq(rows, 1, Len(rows) - 1)), rows[Len(rows)])
    IN
    Return(StableSortByDate(Concat(fred_frames \o <<bls_frame>>)))

\* The call is made.
CallCombine ==
    /\ arg.fn = "combine_fact_tables"
    /\ ret = NoResult
    /\ ret' = combine_fact_tables(arg.args[1], arg.args[2])
    /\ UNCHANGED <<retryVars, extractVars, dbVars, pipeVars, arg, saved, overlapVars>>

----------------------------------------------------------------------------
(* run_pipeline *)

\* config.FRED_SERIES and config.BLS_SERIES, in configuration order.
FRED_SERIES == <<[name |-> "UNRATE", series_id |-> "UNRATE"],
                 [name |-> "MONEY_COST", series_id |-> "FEDFUNDS"]>>

BLS_SERIES == [CPI_URBAN |-> "CUUR0000SA0"]

\* What the patched collaborators return, and the error they can be set to raise.
StubFredData == [observations |-> <<[date |-> "2024-01-01", value |-> "5.0"]>>]

StubError == Raise("RuntimeError", "API down")


\* fred_data.get(name)
FredGet(name) == IF name \in DOMAIN fred_data THEN fred_data[name] ELSE NoData

\* A handler that takes only network errors.
PhaseCatchesNetwork(exc) == exc.type \in NetworkErrors

\* `except Exception as e` of a phase.
PhaseCatches(exc) == exc.type \in ExceptionTypes

\* A phase's handler: log the failure and return; an exception it does not
\* take leaves run_pipeline.
Fail(phase, exc) ==
    /\ pipe' = "done"
    /\ IF PhaseCatches(exc)
       THEN /\ logged' = Append(logged, phase)
            /\ pipeOut' = Return(None)
       ELSE /\ logged' = logged
            /\ pipeOut' = exc

\* One call run_pipeline().
PipeStart ==
    /\ pipe \in {"idle", "done"}
    /\ pc = "idle"
    /\ pipe' = "extract"
    /\ idx' = 1
    /\ fred_data' = <<>>
    /\ bls_data' = NoData
    /\ calls' = <<>>
    /\ logged' = <<>>
    /\ pipeOut' = NoResult
    /\ UNCHANGED <<bound, retryVars, extractVars, dbVars, pureVars, overlapVars>>

\* The next call of the Extract phase, as a call record.
NextFetch ==
    IF idx <= Len(FRED_SERIES)
    THEN Call("fetch_fred_data", <<FRED_SERIES[idx].series_id>>)
    ELSE Call("fetch_bls_data", <<BLS_SERIES, 2021, 2026>>)

\* run_pipeline calls the next extractor of extract.py.
PipeFetch ==
    /\ pipe = "extract"
    /\ bound = "real"
    /\ IF idx <= Len(FRED_SERIES)
       THEN WrapperEnter([op |-> "fetch_fred_data", series_id |-> FRED_SERIES[idx].series_id])
       ELSE WrapperEnter([op |-> "fetch_bls_data"])
    /\ writes' = <<>>
    /\ requests' = 0
    /\ sent' = NoData
    /\ reads' = 0
    /\ calls' = Append(calls, NextFetch)
    /\ pipe' = "waiting"
    /\ UNCHANGED <<FRED_API_KEY, BLS_API_KEY, metadata, files, now, remote, received, seen>>
    /\ UNCHANGED changed
    /\ UNCHANGED <<bound, idx, fred_data, bls_data, logged, pipeOut, dbVars, pureVars, overlapVars>>

\* What run_pipeline does with the way an extractor call ended.
Fetched(out) ==
    LET
        \* fred_data[name] = value
        FredSet(name, value) ==
            [n \in DOMAIN fred_data \cup {name} |-> IF n = name THEN value ELSE fred_data[n]]
    IN
    IF out.kind = "raise"
    THEN /\ Fail("extraction", out)
         /\ UNCHANGED <<idx, fred_data, bls_data>>
    ELSE /\ IF idx <= Len(FRED_SERIES)
            THEN /\ fred_data' = FredSet(FRED_SERIES[idx].name, out.val)
                 /\ idx' = idx + 1
                 /\ pipe' = "extract"
                 /\ UNCHANGED bls_data
            ELSE /\ bls_data' = out.val
                 /\ pipe' = "transform"
                 /\ UNCHANGED <<idx, fred_data>>
         /\ UNCHANGED <<logged, pipeOut>>

\* The extractor call has ended: run_pipeline goes on.
PipeResume ==
    LET
        \* What an extractor of extract.py returned, as run_pipeline holds it: None
        \* is NoData among payloads.
        Held(v) == IF v = None THEN NoData ELSE v
    IN
    /\ pipe = "waiting"
    /\ pc = "idle"
    /\ Fetched(IF result.kind = "return" THEN Return(Held(result.val)) ELSE result)
    /\ UNCHANGED <<bound, calls, retryVars, extractVars, dbVars, pureVars, overlapVars>>

\* run_pipeline calls the next extractor, patched: it returns its payload,
\* returns None, or raises.
PipeStubFetch ==
    LET
        StubBlsData == BlsBatch(<<>>)
    IN
    /\ pipe = "extract"
    /\ bound = "stub"
    /\ calls' = Append(calls, NextFetch)
    /\ \E out \in {Return(IF idx <= Len(FRED_SERIES) THEN StubFredData ELSE StubBlsData),
                   Return(NoData), StubError} :
          Fetched(out)
    /\ UNCHANGED <<bound, retryVars, extractVars, dbVars, pureVars, overlapVars>>

\* A comprehension that filters nothing out.
KeepsEvery(name) == TRUE

\* `if fred_data.get(name) is not None` of the list comprehension.
IsNotNone(name) == FredGet(name) # NoData

RECURSIVE ParseFredCalls(_)
\* The parse_fred_observations calls of the list comprehension, from position i on.
ParseFredCalls(i) ==
    IF i > Len(FRED_SERIES) THEN <<>>
    ELSE (IF IsNotNone(FRED_SERIES[i].name)
          THEN <<Call("parse_fred_observations",
                      <<FredGet(FRED_SERIES[i].name), FRED_SERIES[i].series_id,
                        FRED_SERIES[i].name>>)>>
          ELSE <<>>) \o ParseFredCalls(i + 1)

\* The calls of the Transform phase, in order.
TransformCalls ==
    ParseFredCalls(1)
        \o <<Call("parse_bls_batch", <<bls_data, BLS_SERIES>>),
             Call("combine_fact_tables", <<>>),
             Call("build_dim_series", <<FRED_SERIES, BLS_SERIES>>)>>

\* A Load phase that upserts before it provisions the tables.
LoadCallsUpsertFirst ==
    <<Call("create_engine", <<>>), Call("upsert_observations", <<>>),
      Call("ensure_tables_exist", <<>>), Call("upsert_dim_series", <<>>)>>

\* The calls of the Load phase, in order.
LoadCalls ==
    <<Call("create_engine", <<>>), Call("ensure_tables_exist", <<>>),
      Call("upsert_observations", <<>>), Call("upsert_dim_series", <<>>)>>

\* How a transform function of transform.py ends on its arguments.
Transformed(c) ==
    IF c.fn = "parse_fred_observations"
    THEN (IF c.args[1] = NoData THEN Raise("TypeError", "'NoneType' object is not subscriptable")
          ELSE IF HasKey(c.args[1], "observations") THEN Return("frame")
          ELSE Raise("KeyError", "observations"))
    ELSE IF c.fn = "parse_bls_batch"
    THEN (IF c.args[1] = NoData THEN Raise("TypeError", "'NoneType' object is not subscriptable")
          ELSE IF HasKey(c.args[1], "Results") THEN Return("frame")
          ELSE Raise("KeyError", "Results"))
    ELSE Return("frame")

\* A try block making the calls of `planned` in order: it ends at the first
\* call that raises, or after the last one.
Phase(name, planned, next) ==
    LET
        \* The ways a call of a phase can end.
        Outcomes(c) ==
            IF bound = "real" THEN {Transformed(c)} ELSE {Return("stub"), StubError}
    IN
    \E k \in 1..Len(planned) : \E out \in Outcomes(planned[k]) :
        /\ \A j \in 1..(k - 1) : \E o \in Outcomes(planned[j]) : o.kind = "return"
        /\ out.kind = "raise" \/ k = Len(planned)
        /\ calls' = calls \o SubSeq(planned, 1, k)
        /\ IF out.kind = "raise"
           THEN Fail(name, out)
           ELSE /\ pipe' = next
                /\ logged' = logged
                /\ pipeOut' = IF next = "done" THEN Return(None) ELSE NoResult

\* Phase 2 of run_pipeline.
PipeTransform ==
    /\ pipe = "transform"
    /\ Phase("transform", TransformCalls, "load")
    /\ UNCHANGED <<bound, idx, fred_data, bls_data, retryVars, extractVars, dbVars, pureVars, overlapVars>>

\* Phase 3 of run_pipeline, the loader patched: with the extractors of
\* extract.py bls_data is None and Phase 2 never gets here.
PipeLoad ==
    /\ pipe = "load"
    /\ bound = "stub"
    /\ Phase("load", LoadCalls, "done")
    /\ UNCHANGED <<bound, idx, fred_data, bls_data, retryVars, extractVars, dbVars, pureVars, overlapVars>>

----------------------------------------------------------------------------
(* run_pipeline on extractors that hand back what they fetched, with the  *)
(* transform functions and the loader of the repository                   *)

\* Phase 1: every configured Source-A series gets a payload or None, and
\* Source B a batch of one or two series, configured or not, or None.
RunExtract ==
    LET
        FredPayloads ==
            {[observations |-> obs] :
                obs \in {<<>>, <<[date |-> "2024-01-01", value |-> "5.0"]>>}}

        BatchSeries ==
            [seriesID : {BLS_SERIES["CPI_URBAN"], "TEST123"},
             data : {<<[year |-> "2024", period |-> "M01", value |-> "100"]>>}]

        Batches ==
            {[status |-> "REQUEST_SUCCEEDED", Results |-> [series |-> series]] :
                series \in UNION {[1..n -> BatchSeries] : n \in 1..2}}

        Names == {FRED_SERIES[i].name : i \in 1..Len(FRED_SERIES)}
    IN
    /\ pipe \in {"idle", "done"}
    /\ bound = "payload"
    /\ fred_data' \in [Names -> FredPayloads \cup {NoData}]
    /\ bls_data' \in Batches \cup {NoData}
    /\ idx' = Len(FRED_SERIES) + 1
    /\ calls' = [i \in 1..Len(FRED_SERIES) |->
                    Call("fetch_fred_data", <<FRED_SERIES[i].series_id>>)]
                 \o <<Call("fetch_bls_data", <<BLS_SERIES, 2021, 2026>>)>>
    /\ logged' = <<>>
    /\ pipeOut' = NoResult
    /\ pipe' = "transform"
    /\ UNCHANGED <<bound, retryVars, extractVars, dbVars, pureVars, overlapVars>>

\* Phase 2: the tables handed to Phase 3, or the failure of the first
\* transform call that raises.
RunTransform ==
    LET
        \* series.items()
        Items(series) == [i \in 1..Len(series) |-> <<series[i].name, series[i].series_id>>]

        parse_calls == ParseFredCalls(1)

        fred_frames ==
            [i \in 1..Len(parse_calls) |->
                parse_fred_observations(parse_calls[i].args[1], parse_calls[i].args[2],
                                        parse_calls[i].args[3])]

        raising == {i \in 1..Len(parse_calls) : fred_frames[i].kind = "raise"}

        first == CHOOSE i \in raising : \A j \in raising : i <= j
    IN
    /\ pipe = "transform"
    /\ bound = "payload"
    /\ IF raising # {}
       THEN /\ calls' = calls \o SubSeq(parse_calls, 1, first)
            /\ Fail("transform", fred_frames[first])
            /\ UNCHANGED <<df, runs, stats, dimDf, dimStats>>
       ELSE \E bls_frame \in parse_bls_batch(bls_data, BLS_SERIES) :
              IF bls_frame.kind = "raise"
              THEN /\ calls' = calls \o parse_calls
                                \o <<Call("parse_bls_batch", <<bls_data, BLS_SERIES>>)>>
                   /\ Fail("transform", bls_frame)
                   /\ UNCHANGED <<df, runs, stats, dimDf, dimStats>>
              ELSE /\ calls' = calls \o TransformCalls
                   /\ df' = combine_fact_tables(
                                [i \in 1..Len(fred_frames) |-> fred_frames[i].val],
                                bls_frame.val).val
                   /\ dimDf' = build_dim_series(
                                   Items(FRED_SERIES),
                                   <<<<"CPI_URBAN", BLS_SERIES["CPI_URBAN"]>>>>).val
                   /\ runs' = 0
                   /\ stats' = NoResult
                   /\ dimStats' = NoResult
                   /\ pipe' = "load"
                   /\ UNCHANGED <<logged, pipeOut>>
    /\ UNCHANGED <<tables, fact, dim>>
    /\ UNCHANGED <<bound, idx, fred_data, bls_data, retryVars, extractVars, pureVars, overlapVars>>

\* Phase 3, one call of the loader at a time: create_engine and
\* ensure_tables_exist, then upsert_observations, then upsert_dim_series.
RunLoad ==
    /\ bound = "payload"
    /\ \/ /\ pipe = "load"
          /\ LET db == CreateTableIfNotExists(
                           CreateTableIfNotExists(
                               [tables |-> tables,
                                rows |-> [fact_economic_observations |-> fact,
                                          dim_series |-> dim],
                                out |-> Return(None)],
                               "fact_economic_observations"),
                           "dim_series")
             IN  /\ tables' = db.tables
                 /\ fact' = db.rows["fact_economic_observations"]
                 /\ dim' = db.rows["dim_series"]
          /\ calls' = calls \o SubSeq(LoadCalls, 1, 2)
          /\ pipe' = "upsert"
          /\ UNCHANGED <<stats, runs, dimStats, logged, pipeOut>>
       \/ /\ pipe = "upsert"
          /\ LET r == UpsertObservations(fact, df)
             IN  /\ fact' = r.fact
                 /\ stats' = r.out
                 /\ runs' = IF r.out.kind = "return" THEN 1 ELSE 0
                 /\ IF r.out.kind = "raise"
                    THEN Fail("load", r.out)
                    ELSE pipe' = "dims" /\ UNCHANGED <<logged, pipeOut>>
          /\ calls' = Append(calls, LoadCalls[3])
          /\ UNCHANGED <<tables, dim, dimStats>>
       \/ /\ pipe = "dims"
          /\ LET r == UpsertDimSeries(dim, dimDf)
             IN  /\ dim' = r.dim
                 /\ dimStats' = r.out
                 /\ IF r.out.kind = "raise"
                    THEN Fail("load", r.out)
                    ELSE /\ pipe' = "done"
                         /\ logged' = logged
                         /\ pipeOut' = Return(None)
          /\ calls' = Append(calls, LoadCalls[4])
          /\ UNCHANGED <<tables, fact, stats, runs>>
    /\ UNCHANGED <<df, dimDf>>
    /\ UNCHANGED <<bound, idx, fred_data, bls_data, retryVars, extractVars, pureVars, overlapVars>>

----------------------------------------------------------------------------
(* A decorated operation of the test-suite kind: each invocation either    *)
(* returns a value or raises.                                              *)

CallFunc ==
    /\ WrapperEnter([op |-> "func"])
    /\ UNCHANGED <<extractVars, dbVars, pipeVars, pureVars, overlapVars>>

InvokeFunc ==
    LET
        FuncValues == {"ok", "data"}

        FuncErrors == {Raise("ConnectionError", "transient"), Raise("HTTPError", "503"),
                       Raise("ValueError", "bad config"), Raise("RuntimeError", "api error")}

        FuncOutcomes == {Return(v) : v \in FuncValues} \cup FuncErrors
    IN
    /\ pc = "running"
    /\ callee.op = "func"
    /\ \E out \in FuncOutcomes : WrapperStep(out)
    /\ UNCHANGED <<callee, extractVars, dbVars, pipeVars, pureVars, overlapVars>>

----------------------------------------------------------------------------

InitRetry ==
    /\ pc = "idle"
    /\ callee = [op |-> "none"]
    /\ attempt = 0
    /\ trace = <<>>
    /\ sleeps = <<>>
    /\ result = NoResult

NoRelation == [samePayload |-> FALSE, honoured |-> FALSE,
               unchangedHonoured |-> FALSE, remoteSame |-> FALSE]

\* Empty directories, as after config.py has created them.
InitStore ==
    /\ metadata = <<>>
    /\ files = <<>>
    /\ now = 0
    /\ writes = <<>>
    /\ received = [sid \in FredIds \cup {BlsIdentifier} |-> NoData]
    /\ requests = 0
    /\ sent = NoData
    /\ reads = 0
    /\ changed = {}
    /\ seen = [sid \in FredIds |-> NoRelation]

\* A new database: no table, no row; no DataFrame built yet.
InitLoad ==
    /\ tables = {}
    /\ fact = <<>>
    /\ df = <<>>
    /\ stats = NoResult
    /\ runs = 0
    /\ dim = <<>>
    /\ dimDf = <<>>
    /\ dimStats = NoResult

\* run_pipeline has not been called.
InitPipe ==
    /\ pipe = "idle"
    /\ idx = 1
    /\ fred_data = <<>>
    /\ bls_data = NoData
    /\ calls = <<>>
    /\ logged = <<>>
    /\ pipeOut = NoResult

\* No process has called fetch_fred_data yet.
InitWorkers ==
    LET
        IdleWorker == [pc |-> "idle", called |-> FALSE, series_id |-> "none",
                       meta |-> EmptyDict, data |-> NoData]
    IN
    /\ workers = [p \in Workers |-> IdleWorker]
    /\ mixed = FALSE

\* No function of transform.py has been called.
InitPure ==
    /\ arg = NoData
    /\ ret = NoResult
    /\ saved = <<>>
    /\ InitWorkers

Init ==
    /\ InitPure
    /\ InitRetry
    /\ InitStore
    /\ InitLoad
    /\ InitPipe
    /\ bound = "real"
    /\ FRED_API_KEY = "fake_key"
    /\ BLS_API_KEY = "fake_key"
    /\ remote = [sid \in FredIds |-> <<>>]

NextLoad == EnsureTablesExist \/ NewTable \/ AddRow \/ Upsert

SpecLoad == Init /\ [][NextLoad]_vars

\* The loader on a database that can fail during a call.
NextLoadFaults == NextLoad \/ UpsertInterrupted

SpecLoadFaults == Init /\ [][NextLoadFaults]_vars

NextDim == EnsureTablesExist \/ NewDimTable \/ AddDimRow \/ UpsertDim

SpecDim == Init /\ [][NextDim]_vars

NextRetry == CallFunc \/ InvokeFunc

SpecRetry == Init /\ [][NextRetry]_vars

\* The extractor of Source A: the credential may be missing, the service
\* holds any series.
InitExtract ==
    /\ InitPure
    /\ InitRetry
    /\ InitStore
    /\ InitLoad
    /\ InitPipe
    /\ bound = "real"
    /\ FRED_API_KEY \in {"fake_key", None}
    /\ BLS_API_KEY = "fake_key"
    /\ remote \in [FredIds -> SeriesData]

\* Processes that call fetch_fred_data side by side while the service changes.
InitOverlap == InitExtract /\ Checked(FRED_API_KEY)

NextOverlap == WorkerStep \/ RemoteChange \/ Tick

SpecOverlap == InitOverlap /\ [][NextOverlap]_vars

NextExtract == CallFred \/ FredAttempt \/ RemoteChange \/ Tick

SpecExtract == InitExtract /\ [][NextExtract]_vars

\* run_pipeline, with the collaborators of the repository or with patched
\* ones; each configured series holds one observation.
InitPipeline ==
    LET
        PipeIds == {FRED_SERIES[i].series_id : i \in 1..Len(FRED_SERIES)}
    IN
    /\ InitPure
    /\ InitRetry
    /\ metadata = <<>>
    /\ files = <<>>
    /\ now = 0
    /\ writes = <<>>
    /\ requests = 0
    /\ sent = NoData
    /\ reads = 0
    /\ changed = {}
    /\ received = [sid \in PipeIds \cup {BlsIdentifier} |-> NoData]
    /\ seen = [sid \in PipeIds |-> NoRelation]
    /\ remote = [sid \in PipeIds |-> StubFredData["observations"]]
    /\ InitLoad
    /\ InitPipe
    /\ bound \in {"real", "stub"}
    /\ FRED_API_KEY \in {"fake_key", None}
    /\ BLS_API_KEY = "fake_key"

NextPipeline ==
    \/ PipeStart \/ PipeFetch \/ FredAttempt \/ BlsAttempt \/ PipeResume
    \/ PipeStubFetch \/ PipeTransform \/ PipeLoad

SpecPipeline == InitPipeline /\ [][NextPipeline]_vars

\* run_pipeline, again and again on one database that starts empty, the
\* extractors handing back payloads.
InitRun ==
    /\ InitPure
    /\ InitRetry
    /\ InitStore
    /\ InitLoad
    /\ InitPipe
    /\ bound = "payload"
    /\ FRED_API_KEY = "fake_key"
    /\ BLS_API_KEY = "fake_key"
    /\ remote = [sid \in FredIds |-> <<>>]

NextRun == RunExtract \/ RunTransform \/ RunLoad

SpecRun == InitRun /\ [][NextRun]_vars

\* Both extractors, each credential set or missing, over the days of the
\* model; the Source-A series holds two observations.
InitSources ==
    /\ InitPure
    /\ InitRetry
    /\ InitStore
    /\ InitLoad
    /\ InitPipe
    /\ bound = "real"
    /\ FRED_API_KEY \in {"fake_key", None}
    /\ BLS_API_KEY \in {"fake_key", None}
    /\ remote = [sid \in FredIds |->
                    <<[date |-> "2024-01-01", value |-> "5.0"],
                      [date |-> "2024-02-01", value |-> "."]>>]

NextSources == CallFred \/ FredAttempt \/ CallBls \/ BlsAttempt \/ Tick

SpecSources == InitSources /\ [][NextSources]_vars

\* The state in which the utilities and the functions of transform.py are
\* called: no call made yet.
InitCalls ==
    /\ InitRetry
    /\ InitStore
    /\ InitLoad
    /\ InitPipe
    /\ bound = "real"
    /\ FRED_API_KEY = "fake_key"
    /\ BLS_API_KEY = "fake_key"
    /\ remote = [sid \in FredIds |-> <<>>]
    /\ saved = <<>>
    /\ InitWorkers

\* compute_hash called on any dicts, one after the other.
InitHash == InitCalls /\ arg = <<>> /\ ret = <<>>

NextHash == CallComputeHash

SpecHash == InitHash /\ [][NextHash]_vars

\* A function of transform.py is about to be called on any raw payload.
InitTransform ==
    LET
        \* Raw observations of Source A as saved to data/raw, with the fields FRED
        \* adds to each, and the envelope around them.
        RawDates == {"2024-01-01", "2024-02-01"}

        RawValues == {"5.0", ".", "5.2"}

        RawObservation == [date : RawDates, value : RawValues, realtime_end : {"9999-12-31"}]

        RawObservations == UNION {[1..n -> RawObservation] : n \in 0..MaxRows}

        Bare(obs) == [observations |-> obs]

        Enveloped(obs) == [units |-> "Percent", count |-> Len(obs), observations |-> obs]

        RawFredJson == {Bare(obs) : obs \in RawObservations} \cup {Enveloped(obs) : obs \in RawObservations}

        FredNames == {<<"UNRATE", "UNRATE">>, <<"PCEC", "PCE_NOMINAL">>}

        \* The calls parse_fred_observations(data, series_id, series_name).
        ParseFredInputs ==
            {Call("parse_fred_observations", <<data, names[1], names[2]>>) :
                data \in RawFredJson, names \in FredNames}

        \* Raw batches of Source B as saved to data/raw: any series in any order,
        \* each with its observations in any order.
        BLS_SERIES_MAP == [CPI_URBAN |-> "CUUR0000SA0", AVG_WAGES |-> "CES0500000003"]

        RawSeriesIds == {"CUUR0000SA0", "CES0500000003", "TEST123"}

        RawPeriods == {"M01", "M02", "M03"}

        RawBlsObservation == [year : {"2024"}, period : RawPeriods, value : {"100"}]

        RawSeries == [seriesID : RawSeriesIds,
                      data : UNION {[1..n -> RawBlsObservation] : n \in 0..MaxRows}]

        RawBlsJson == {[status |-> "REQUEST_SUCCEEDED", Results |-> [series |-> series]] :
                          series \in UNION {[1..n -> RawSeries] : n \in 0..2}}

        \* The calls parse_bls_batch(data, series_map).
        ParseBlsInputs == {Call("parse_bls_batch", <<data, BLS_SERIES_MAP>>) : data \in RawBlsJson}

        \* The dicts name -> series_id made of some of the given items, as Python
        \* holds them: the items <<name, series_id>> in insertion order, no name twice.
        MapsOf(items) ==
            {m \in UNION {[1..n -> items] : n \in 0..Cardinality(items)} :
                \A i, j \in 1..Len(m) : m[i][1] = m[j][1] => i = j}

        FredItems == {<<"UNRATE", "UNRATE">>, <<"PCE_NOMINAL", "PCEC">>}

        BlsItems == {<<"CPI_URBAN", "CUUR0000SA0">>, <<"AVG_WAGES", "CES0500000003">>}

        \* The calls build_dim_series(fred_series, bls_series).
        BuildDimInputs ==
            {Call("build_dim_series", <<fred_series, bls_series>>) :
                fred_series \in MapsOf(FredItems), bls_series \in MapsOf(BlsItems)}

        \* The lists of Source-A tables: none, one or two.
        FredFrames ==
            {<<>>} \cup {<<t>> : t \in TidyTables("UNRATE", "FRED")}
                   \cup {<<t, u>> : t \in TidyTables("UNRATE", "FRED"), u \in TidyTables("FEDFUNDS", "FRED")}

        \* The calls combine_fact_tables(fred_frames, bls_frame).
        CombineInputs ==
            {Call("combine_fact_tables", <<fred_frames, bls_frame>>) :
                fred_frames \in FredFrames, bls_frame \in TidyTables("CUUR0000SA0", "BLS")}
    IN
    /\ InitCalls
    /\ arg \in ParseFredInputs \cup ParseBlsInputs \cup BuildDimInputs \cup CombineInputs
    /\ ret = NoResult

NextTransform == CallParseFred \/ CallParseBls \/ CallBuildDim \/ CallCombine

SpecTransform == InitTransform /\ [][NextTransform]_vars

\* ensure_tables_exist called, again and again, on a database that holds
\* none, one or both of the tables, with any rows in those it holds.
InitEnsure ==
    LET
        \* The tables a database can hold when ensure_tables_exist is called: rows
        \* under their primary keys.
        StoredFacts ==
            UNION {[keys -> {Stored(row) : row \in Rows}] :
                      keys \in SUBSET {RowKey(row) : row \in Rows}}

        StoredDims ==
            UNION {[ids -> {DimStored(row) : row \in DimRows}] : ids \in SUBSET FactIds}
    IN
    /\ InitPure
    /\ InitRetry
    /\ InitStore
    /\ InitPipe
    /\ bound = "real"
    /\ FRED_API_KEY = "fake_key"
    /\ BLS_API_KEY = "fake_key"
    /\ remote = [sid \in FredIds |-> <<>>]
    /\ tables \in SUBSET TableNames
    /\ fact \in IF "fact_economic_observations" \in tables THEN StoredFacts ELSE {<<>>}
    /\ dim \in IF "dim_series" \in tables THEN StoredDims ELSE {<<>>}
    /\ df = <<>>
    /\ stats = NoResult
    /\ runs = 0
    /\ dimDf = <<>>
    /\ dimStats = NoResult

NextEnsure == EnsureTablesExist

SpecEnsure == InitEnsure /\ [][NextEnsure]_vars

\* save_metadata and load_metadata called in any order on an empty
\* metadata directory.
InitMeta == InitCalls /\ arg = Call("none", <<>>) /\ ret = NoResult

NextMeta == CallSaveMetadata \/ CallLoadMetadata

SpecMeta == InitMeta /\ [][NextMeta]_vars

\* The extractor of Source B alone, over the days of the model.
NextBls == CallBls \/ BlsAttempt \/ Tick

SpecBls == Init /\ [][NextBls]_vars

----------------------------------------------------------------------------
(* Claims about fetch_with_retry *)

Failed(out) == out.kind = "raise"

Succeeded(out) == out.kind = "return"

TransientOnly(tr) == \A i \in 1..Len(tr) : Failed(tr[i]) => tr[i].type \in NetworkErrors

Finished == pc = "idle" /\ result # NoResult

\* C1: for an operation that fails only with transient (network/HTTP) errors, one
\* call of the wrapper invokes it at most 3 times; no invocation follows a
\* successful one and the call returns that invocation's result; the wrapper
\* raises to the caller only after exactly 3 failed invocations, so an operation
\* failing twice and then succeeding is invoked exactly 3 times.
C1_TransientRetriedUpToThree ==
    (callee.op = "func" /\ TransientOnly(trace)) =>
        /\ Len(trace) <= 3
        /\ \A i \in 1..Len(trace) : Succeeded(trace[i]) => i = Len(trace)
        /\ pc = "running" => Len(trace) < 3
        /\ Finished =>
              /\ Len(trace) >= 1
              /\ Succeeded(trace[Len(trace)]) => result = trace[Len(trace)]
              /\ Failed(trace[Len(trace)]) => (Len(trace) = 3 /\ Failed(result))

\* C1 witness: two transient failures, then a success on the third invocation.
C1_Witness ==
    /\ Finished
    /\ callee.op = "func"
    /\ Len(trace) = 3
    /\ TransientOnly(trace)
    /\ Failed(trace[1]) /\ Failed(trace[2])
    /\ result = Return("ok")

\* C2: an operation failing with a configuration/validation error (ValueError)
\* propagates it on its first occurrence: exactly one invocation, no retry and
\* no backoff delay.
C2_ValueErrorNotRetried ==
    (callee.op = "func" /\ Len(trace) >= 1 /\ Failed(trace[1])
        /\ trace[1].type = "ValueError") =>
        /\ Len(trace) = 1
        /\ sleeps = <<>>
        /\ pc = "idle"
        /\ result = trace[1]

\* C3: when the third (final) attempt fails, the error that reaches the caller
\* is the error that attempt raised, unchanged, and the call does not end by
\* returning a value.
C3_FinalErrorUnchanged ==
    (Finished /\ callee.op = "func" /\ Len(trace) = 3 /\ Failed(trace[3])) =>
        /\ result = trace[3]
        /\ result.kind = "raise"

\* C3 witness: three failures, the last one different from the first two.
C3_Witness ==
    /\ Finished
    /\ callee.op = "func"
    /\ Len(trace) = 3
    /\ Failed(trace[3])
    /\ trace[3] # trace[1] /\ trace[3] # trace[2]
    /\ result = trace[3]

----------------------------------------------------------------------------
(* Claims about fetch_fred_data *)

\* The metadata of a Source-A series in a metadata directory, {} when absent.
MetaIn(dir, sid) == LoadMetadataIn(dir, "FRED", sid)

StoredDateIn(dir, sid) == Get(MetaIn(dir, sid), "last_observation_date")

\* The step in which a call of fetch_fred_data for sid ends, and ends normally.
FredFinishes(sid) ==
    /\ pc = "running" /\ pc' = "idle"
    /\ callee.op = "fetch_fred_data" /\ callee.series_id = sid

FredReturns(sid) == FredFinishes(sid) /\ result'.kind = "return"

\* The last finished call was a normally-returning fetch_fred_data for sid.
FredReturned(sid) ==
    /\ Finished /\ result.kind = "return"
    /\ callee.op = "fetch_fred_data" /\ callee.series_id = sid

\* The newest date among the observations of a non-empty list.
Newest(obs) ==
    CHOOSE d \in {obs[i].date : i \in 1..Len(obs)} :
        \A j \in 1..Len(obs) : DateRank(obs[j].date) <= DateRank(d)

\* C4: when a fetch_fred_data call receives the same payload as the call before
\* it for the same series, it is a no-op: it writes no snapshot and no metadata,
\* so the snapshot files and the stored metadata (last_hash,
\* last_observation_date, last_updated) are exactly what the first call left.
C4_SamePayloadNoOp ==
    [][\A sid \in FredIds :
          (FredReturns(sid) /\ received[sid] # NoData /\ received'[sid] = received[sid])
          => (files' = files /\ metadata' = metadata /\ writes' = <<>>)]_vars

\* C4 witness: a second call got the first call's payload and wrote nothing;
\* exactly one snapshot file exists.
C4_Witness ==
    \E sid \in FredIds :
        /\ FredReturned(sid)
        /\ seen[sid].samePayload
        /\ received[sid]["observations"] # <<>>
        /\ writes = <<>>
        /\ Cardinality(DOMAIN files) = 1
        /\ MetaIn(metadata, sid)["last_hash"] = compute_hash(received[sid]["observations"])

\* C5: when the remote series is unchanged between two calls and the remote
\* honours observation_start in both, the second call detects no change and
\* writes neither a snapshot nor metadata.
C5_ScopedRefetchNoOp ==
    \A sid \in FredIds :
        (FredReturned(sid) /\ seen[sid].unchangedHonoured) => writes = <<>>

\* C6: when the fingerprint of the response's observations differs from the
\* stored last_hash and the list is non-empty, the call writes exactly one
\* snapshot, to today's file (created or overwritten, every other file kept),
\* then the metadata, whose last_observation_date is the date of the newest
\* observation of the response and whose last_hash is the new fingerprint.
C6_ChangeWritesOnce ==
    [][\A sid \in FredIds :
          (/\ FredReturns(sid)
           /\ received'[sid] # NoData
           /\ received'[sid]["observations"] # <<>>
           /\ ~SameHash(MetaIn(metadata, sid),
                        compute_hash(received'[sid]["observations"])))
          => LET path == <<"FRED", sid, Datestamp(now)>>
                 obs == received'[sid]["observations"]
             IN  /\ writes' = <<<<"snapshot", path>>, <<"metadata", <<"FRED", sid>>>>>>
                 /\ DOMAIN files' = DOMAIN files \cup {path}
                 /\ files'[path] = received'[sid]
                 /\ \A p \in DOMAIN files \ {path} : files'[p] = files[p]
                 /\ StoredDateIn(metadata', sid) = Newest(obs)
                 /\ MetaIn(metadata', sid)["last_hash"] = compute_hash(obs)]_vars

\* C6 witness: a call got two observations, detected a change and wrote; the
\* stored date is the later of the two dates.
C6_Witness ==
    \E sid \in FredIds :
        /\ FredReturned(sid)
        /\ Len(received[sid]["observations"]) = 2
        /\ Len(writes) = 2
        /\ <<"FRED", sid, Datestamp(now)>> \in DOMAIN files
        /\ StoredDateIn(metadata, sid) = "2024-02-01"

\* C7: a call whose response contains zero observations leaves the stored
\* last_observation_date as it was, whether or not a change was detected.
C7_EmptyKeepsDate ==
    [][\A sid \in FredIds :
          (/\ FredReturns(sid)
           /\ received'[sid] # NoData
           /\ received'[sid]["observations"] = <<>>)
          => StoredDateIn(metadata', sid) = StoredDateIn(metadata, sid)]_vars

\* C7 witness: with a date stored, an empty response was detected as a change
\* (metadata rewritten) and the date is still stored.
C7_Witness ==
    \E sid \in FredIds :
        /\ FredReturned(sid)
        /\ received[sid]["observations"] = <<>>
        /\ Len(writes) = 2
        /\ Truthy(StoredDateIn(metadata, sid))

\* C8: no successful run with a non-empty response leaves the stored
\* last_observation_date earlier than it was before that run.
C8_DateNeverRegresses ==
    [][\A sid \in FredIds :
          (/\ FredReturns(sid)
           /\ received'[sid] # NoData
           /\ received'[sid]["observations"] # <<>>
           /\ Truthy(StoredDateIn(metadata, sid)))
          => /\ Truthy(StoredDateIn(metadata', sid))
             /\ DateRank(StoredDateIn(metadata', sid))
                   >= DateRank(StoredDateIn(metadata, sid))]_vars


----------------------------------------------------------------------------
(* upsert_observations: classification and idempotence *)

\* The step is a call of upsert_observations that returns its counters.
UpsertReturns == Upsert /\ stats'.kind = "return"

\* Two values are both missing, or both numbers less than the tolerance apart.
SameValue(a, b) ==
    \/ a = NaN /\ b = NaN
    \/ a # NaN /\ b # NaN /\ a[1] - b[1] < Tolerance /\ b[1] - a[1] < Tolerance

\* The positions of d whose key is not stored in tbl.
InsertBucket(tbl, d) == {i \in 1..Len(d) : RowKey(d[i]) \notin DOMAIN tbl}

\* The positions of d whose key is stored in tbl with the same value.
UnchangedBucket(tbl, d) ==
    {i \in 1..Len(d) : RowKey(d[i]) \in DOMAIN tbl
                       /\ SameValue(d[i].value, tbl[RowKey(d[i])].value)}

\* The positions of d whose key is stored in tbl with another value.
UpdateBucket(tbl, d) ==
    {i \in 1..Len(d) : RowKey(d[i]) \in DOMAIN tbl
                       /\ ~SameValue(d[i].value, tbl[RowKey(d[i])].value)}

\* C9: a call of upsert_observations that returns reports, for the table it
\* was given and the storage it found, the number of rows whose key was not
\* stored (inserted), stored with an equal value, two missing values being
\* equal (unchanged), and stored with another value (updated); the three
\* counts add up to the number of rows.
C9_CountsAreBucketSizes ==
    [][UpsertReturns =>
         /\ stats'.val.inserted = Cardinality(InsertBucket(fact, df))
         /\ stats'.val.unchanged = Cardinality(UnchangedBucket(fact, df))
         /\ stats'.val.updated = Cardinality(UpdateBucket(fact, df))
         /\ stats'.val.inserted + stats'.val.unchanged + stats'.val.updated = Len(df)]_vars

\* A call returned with one row updated, its value now the stored one, and
\* one row of another key unchanged, its number within the tolerance of the
\* stored number without being that number.
C9_Witness ==
    /\ stats.kind = "return"
    /\ stats.val.updated = 1
    /\ stats.val.unchanged = 1
    /\ \E i, j \in 1..Len(df) :
          /\ RowKey(df[i]) # RowKey(df[j])
          /\ RowKey(df[i]) \in DOMAIN fact
          /\ RowKey(df[j]) \in DOMAIN fact
          /\ fact[RowKey(df[i])].value # df[i].value
          /\ SameValue(df[i].value, fact[RowKey(df[i])].value)
          /\ fact[RowKey(df[j])].value = df[j].value

\* C10: a call of upsert_observations on the table the call before it was
\* given and returned from reports no insert, no update and every row
\* unchanged, and leaves the stored rows as they were.
C10_SecondCallNoOp ==
    [][UpsertReturns /\ runs >= 1 =>
         /\ stats'.val = [inserted |-> 0, updated |-> 0, unchanged |-> Len(df)]
         /\ fact' = fact]_vars


\* The positions of d that hold the key k.
Holding(d, k) == {i \in 1..Len(d) : RowKey(d[i]) = k}

\* The last position of d that holds the key k with a value other than v.
LastDiffering(d, k, v) ==
    CHOOSE i \in Holding(d, k) :
        /\ ~SameValue(d[i].value, v)
        /\ \A j \in Holding(d, k) : ~SameValue(d[j].value, v) => j <= i

\* The rows of d with a stored key: missing against a stored missing value,
\* and missing on exactly one side.
NullPairs(tbl, d) ==
    {i \in 1..Len(d) : /\ RowKey(d[i]) \in DOMAIN tbl
                       /\ d[i].value = NaN /\ tbl[RowKey(d[i])].value = NaN}

NullAgainstNumber(tbl, d) ==
    {i \in 1..Len(d) : /\ RowKey(d[i]) \in DOMAIN tbl
                       /\ (d[i].value = NaN) # (tbl[RowKey(d[i])].value = NaN)}

\* C11: in a call of upsert_observations that returns, a row inserted with a
\* missing value is stored as a null and a row inserted with a number as that
\* number; a missing value against a stored null counts as unchanged and, no
\* other value coming for that key, leaves the stored row as it was; a missing
\* value against a stored number, or a number (0 included) against a stored
\* null, counts as update, and the stored value becomes the incoming one (of
\* the last such row, when several rows come for the key).
C11_NullComparedAsNull ==
    [][UpsertReturns =>
         /\ \A i \in InsertBucket(fact, df) : fact'[RowKey(df[i])].value = df[i].value
         /\ Cardinality(NullPairs(fact, df)) <= stats'.val.unchanged
         /\ Cardinality(NullAgainstNumber(fact, df)) <= stats'.val.updated
         /\ \A i \in NullPairs(fact, df) :
               (\A j \in Holding(df, RowKey(df[i])) : df[j].value = NaN)
               => fact'[RowKey(df[i])] = fact[RowKey(df[i])]
         /\ \A i \in NullAgainstNumber(fact, df) :
               LET k == RowKey(df[i])
               IN  fact'[k].value = df[LastDiffering(df, k, fact[k].value)].value]_vars

\* A one-row table with a missing value was upserted as an update: the
\* stored number, the only other row's being 0, is now a null.
C11_Witness ==
    /\ stats.kind = "return"
    /\ stats.val = [inserted |-> 0, updated |-> 1, unchanged |-> 0]
    /\ Len(df) = 1
    /\ fact[RowKey(df[1])].value = NaN
    /\ \E k \in DOMAIN fact : fact[k].value = Num(0)


\* C13: no step removes a stored fact row, and a stored row for which the
\* table of an upsert_observations call holds no row, or only rows whose value
\* equals the stored one, keeps its value, series_name and source, whatever
\* series_name and source those rows carry.
C13_OnlyUpdatesModify ==
    [][\A k \in DOMAIN fact :
          /\ k \in DOMAIN fact'
          /\ (\A i \in Holding(df, k) : SameValue(df[i].value, fact[k].value))
             => fact'[k] = fact[k]]_vars

\* A call returned one update and one unchanged row; the unchanged row
\* carries another series_name and source than the row stored for its key.
C13_Witness ==
    /\ stats.kind = "return"
    /\ stats.val = [inserted |-> 0, updated |-> 1, unchanged |-> 1]
    /\ \E i, j \in 1..Len(df) :
          /\ RowKey(df[i]) # RowKey(df[j])
          /\ fact[RowKey(df[j])] = Stored(df[j])
          /\ SameValue(df[i].value, fact[RowKey(df[i])].value)
          /\ fact[RowKey(df[i])].series_name # df[i].series_name
          /\ fact[RowKey(df[i])].source # df[i].source

----------------------------------------------------------------------------
(* upsert_dim_series *)

\* The step is a call of upsert_dim_series that returns its counters.
UpsertDimReturns == UpsertDim /\ dimStats'.kind = "return"

\* C12: no step modifies or removes a stored dimension row, so its
\* series_name and source stay those of the first insert; a call of
\* upsert_dim_series that returns counts the rows whose series_id was stored as
\* unchanged and the others as inserted, and every series_id it inserted is
\* stored with the series_name and source of its row.
C12_DimFirstWriteWins ==
    [][/\ \A id \in DOMAIN dim : id \in DOMAIN dim' /\ dim'[id] = dim[id]
       /\ UpsertDimReturns =>
            LET old == {i \in 1..Len(dimDf) : dimDf[i].series_id \in DOMAIN dim}
                new == {i \in 1..Len(dimDf) : dimDf[i].series_id \notin DOMAIN dim}
            IN  /\ dimStats'.val.unchanged = Cardinality(old)
                /\ dimStats'.val.inserted = Cardinality(new)
                /\ \A i \in new :
                      /\ dimDf[i].series_id \in DOMAIN dim'
                      /\ dim'[dimDf[i].series_id].series_name = dimDf[i].series_name
                      /\ dim'[dimDf[i].series_id].source = dimDf[i].source]_vars

\* A call returned one insert and one unchanged row, the unchanged row
\* carrying another series_name than the stored one.
C12_Witness ==
    /\ dimStats.kind = "return"
    /\ dimStats.val = [inserted |-> 1, unchanged |-> 1]
    /\ \E i \in 1..Len(dimDf) :
          /\ dimDf[i].series_id \in DOMAIN dim
          /\ dim[dimDf[i].series_id].series_name # dimDf[i].series_name


----------------------------------------------------------------------------
(* Claims about run_pipeline *)

\* The functions the current / last run called.
FnsCalled == {calls[i].fn : i \in 1..Len(calls)}

ExtractFns == {"fetch_fred_data", "fetch_bls_data"}

LoadFns == {"create_engine", "ensure_tables_exist", "upsert_observations", "upsert_dim_series"}

\* C14: run_pipeline never raises; a run logs at most one failure, and then
\* it has ended by returning; a run that ended without logging made every
\* call up to upsert_dim_series; after an Extract failure only extractors
\* have been called, and fetch_bls_data not at all when a fetch_fred_data call
\* failed; after a Transform failure no Load function has been called; an
\* extractor call that ends in an error ends the run with the failure logged.
C14_PipelineNeverRaises ==
    /\ pipeOut.kind # "raise"
    /\ pipe = "done" => pipeOut = Return(None)
    /\ Len(logged) <= 1
    /\ logged # <<>> => pipe = "done"
    /\ (pipe = "done" /\ logged = <<>>) => calls[Len(calls)].fn = "upsert_dim_series"
    /\ logged = <<"extraction">> =>
          /\ FnsCalled \subseteq ExtractFns
          /\ calls[Len(calls)].fn = "fetch_fred_data" => "fetch_bls_data" \notin FnsCalled
    /\ logged = <<"transform">> => FnsCalled \cap LoadFns = {}
    /\ (bound = "real" /\ pipe \in {"transform", "load", "done"} /\ result.kind = "raise")
          => (pipe = "done" /\ logged = <<"extraction">>)

\* The first fetch_fred_data call of a run failed on the transport in all
\* its attempts: the run has ended, the failure is logged, nothing else was called.
C14_Witness ==
    /\ bound = "real"
    /\ pipe = "done"
    /\ logged = <<"extraction">>
    /\ Len(calls) = 1
    /\ Len(trace) = 3
    /\ result.type = "HTTPError"
    /\ pipeOut = Return(None)

\* The place of a function in the order of a run.
Order(fn) ==
    CASE fn = "fetch_fred_data" -> 1
      [] fn = "fetch_bls_data" -> 2
      [] fn = "parse_fred_observations" -> 3
      [] fn = "parse_bls_batch" -> 4
      [] fn = "combine_fact_tables" -> 5
      [] fn = "build_dim_series" -> 6
      [] fn = "create_engine" -> 7
      [] fn = "ensure_tables_exist" -> 8
      [] fn = "upsert_observations" -> 9
      [] fn = "upsert_dim_series" -> 10

\* The position in FRED_SERIES of the series a parse_fred_observations call is for.
SeriesOf(c) == CHOOSE i \in 1..Len(FRED_SERIES) : FRED_SERIES[i].series_id = c.args[2]

\* C15: the calls of a run are, in this order: fetch_fred_data for the
\* configured series in configuration order, one call each; fetch_bls_data
\* once; the parse_fred_observations calls, in configuration order;
\* parse_bls_batch, combine_fact_tables, build_dim_series; create_engine,
\* ensure_tables_exist, upsert_observations, upsert_dim_series; so every
\* extractor call precedes every transform call and every transform call
\* every load call. A run that ended without a failure made all the fetch calls.
C15_PhasesOrdered ==
    /\ \A i \in 1..Len(calls) :
          /\ i <= Len(FRED_SERIES) =>
                /\ calls[i].fn = "fetch_fred_data"
                /\ calls[i].args[1] = FRED_SERIES[i].series_id
          /\ i = Len(FRED_SERIES) + 1 => calls[i].fn = "fetch_bls_data"
          /\ i > Len(FRED_SERIES) + 1 => calls[i].fn \notin ExtractFns
    /\ \A i, j \in 1..Len(calls) :
          i < j =>
             /\ Order(calls[i].fn) <= Order(calls[j].fn)
             /\ Order(calls[i].fn) = Order(calls[j].fn) =>
                   /\ calls[i].fn \in {"fetch_fred_data", "parse_fred_observations"}
                   /\ calls[i].fn = "parse_fred_observations" =>
                         SeriesOf(calls[i]) < SeriesOf(calls[j])
    /\ (pipe = "done" /\ logged = <<>>) =>
          /\ Len(calls) >= Len(FRED_SERIES) + 1 + 3 + 4
          /\ LoadFns \subseteq FnsCalled

\* A run ended without a failure after parsing both series: twelve calls.
C15_Witness ==
    /\ pipe = "done"
    /\ logged = <<>>
    /\ Len(calls) = 12
    /\ calls[4].fn = "parse_fred_observations"
    /\ calls[5].fn = "parse_fred_observations"
    /\ calls[12].fn = "upsert_dim_series"

\* Every extractor call of the run has returned.
ExtractReturned == pipe \in {"transform", "load", "done"} /\ logged # <<"extraction">>

\* C16: in a run with the extractors of the repository in which every
\* extractor call returned, once the run has ended parse_fred_observations
\* was called for every configured series with the payload fetched for it,
\* parse_bls_batch with the batch fetched, and upsert_observations and
\* upsert_dim_series were called.
C16_PayloadsReachTransform ==
    (bound = "real" /\ ExtractReturned /\ pipe = "done") =>
        /\ \A k \in 1..Len(FRED_SERIES) :
              \E i \in 1..Len(calls) :
                 /\ calls[i].fn = "parse_fred_observations"
                 /\ calls[i].args[2] = FRED_SERIES[k].series_id
                 /\ calls[i].args[1] = received[FRED_SERIES[k].series_id]
        /\ \E i \in 1..Len(calls) :
              /\ calls[i].fn = "parse_bls_batch"
              /\ calls[i].args[1] = received[BlsIdentifier]
        /\ {"upsert_observations", "upsert_dim_series"} \subseteq FnsCalled


----------------------------------------------------------------------------
(* Claims about both extractors *)

\* The call c is made with its credential missing.
NoCredential(c) ==
    \/ c.op = "fetch_fred_data" /\ ~Truthy(FRED_API_KEY)
    \/ c.op = "fetch_bls_data" /\ ~Truthy(BLS_API_KEY)

\* The configuration error of the call c.
NotSet(c) ==
    IF c.op = "fetch_fred_data" THEN Raise("ValueError", "FRED_API_KEY not set.")
    ELSE Raise("ValueError", "BLS_API_KEY not set.")

\* C17: throughout a fetch_fred_data or fetch_bls_data call made with its
\* credential missing, no remote request is issued and no metadata file is
\* loaded, no file is written and the snapshot and metadata directories stay
\* as they are; every attempt raises the configuration error and so does the call.
C17_NoCredentialNoIO ==
    [][NoCredential(callee') =>
         /\ requests' = 0
         /\ reads' = 0
         /\ writes' = <<>>
         /\ files' = files
         /\ metadata' = metadata
         /\ \A i \in 1..Len(trace') : trace'[i] = NotSet(callee')
         /\ pc' = "idle" => result' = NotSet(callee')]_vars

\* A fetch_bls_data call without credential has ended, after three attempts,
\* and a snapshot of an earlier Source-A call is still there.
C17_Witness ==
    /\ Finished
    /\ callee.op = "fetch_bls_data"
    /\ ~Truthy(BLS_API_KEY)
    /\ Len(trace) = 3
    /\ requests = 0
    /\ result = Raise("ValueError", "BLS_API_KEY not set.")
    /\ files # <<>>

\* The first response of the call lacks the observations field (Source A) or
\* reports a status other than REQUEST_SUCCEEDED (Source B).
FirstResponseRejected ==
    /\ Len(trace) >= 1
    /\ \/ callee.op = "fetch_fred_data"
          /\ trace[1] = Raise("ValueError", "Malformed FRED response")
       \/ callee.op = "fetch_bls_data"
          /\ trace[1] = Raise("RuntimeError", "BLS API Error")

\* C18: when the first response of a fetch_fred_data call lacks the
\* observations field, or the first response of a fetch_bls_data call reports
\* an application failure, the call has ended with that error after exactly
\* one remote request.
C18_RejectedResponseNotRetried ==
    FirstResponseRejected =>
        /\ pc = "idle"
        /\ result = trace[1]
        /\ requests = 1

\* The step in which a call of fetch_bls_data ends, and ends normally.
BlsReturns ==
    /\ pc = "running" /\ pc' = "idle"
    /\ callee.op = "fetch_bls_data"
    /\ result'.kind = "return"

\* The metadata of the batch in a metadata directory, {} when absent.
BlsMetaIn(dir) == LoadMetadataIn(dir, "BLS", BlsIdentifier)

\* C19: a fetch_bls_data call that returns compares the fingerprint of the
\* whole response with the stored last_hash: when equal it writes nothing and
\* leaves snapshots and metadata as they are; otherwise it writes today's
\* batch snapshot (created or overwritten, every other file kept) with the
\* response as content, then the metadata with the new fingerprint as
\* last_hash and the current time as last_updated.
C19_BlsFingerprint ==
    [][BlsReturns =>
         LET data == received'[BlsIdentifier]
             path == <<"BLS", BlsIdentifier, Datestamp(now)>>
         IN  IF SameHash(BlsMetaIn(metadata), compute_hash_batch(data))
             THEN files' = files /\ metadata' = metadata /\ writes' = <<>>
             ELSE /\ writes' = <<<<"snapshot", path>>, <<"metadata", <<"BLS", BlsIdentifier>>>>>>
                  /\ DOMAIN files' = DOMAIN files \cup {path}
                  /\ files'[path] = data
                  /\ \A q \in DOMAIN files \ {path} : files'[q] = files[q]
                  /\ BlsMetaIn(metadata') = [last_hash |-> compute_hash_batch(data),
                                             last_updated |-> IsoFormat(now)]]_vars

\* A call found the stored fingerprint of its response and wrote nothing,
\* on a day after the one the snapshot was written.
C19_Witness ==
    /\ Finished
    /\ callee.op = "fetch_bls_data"
    /\ result.kind = "return"
    /\ writes = <<>>
    /\ received[BlsIdentifier] # NoData
    /\ BlsMetaIn(metadata)["last_hash"] = compute_hash_batch(received[BlsIdentifier])
    /\ BlsMetaIn(metadata)["last_updated"] < now

\* The targets of the model: source and identifier.
Targets == {<<"FRED", sid>> : sid \in FredIds} \cup {<<"BLS", BlsIdentifier>>}

\* The snapshot files of a target, and the days a change was detected for it.
SnapshotsOf(t) == {f \in DOMAIN files : f[1] = t[1] /\ f[2] = t[2]}

ChangeDaysOf(t) == {c[3] : c \in {x \in changed : x[1] = t[1] /\ x[2] = t[2]}}

\* C20: the snapshot files of a source and identifier are exactly the files
\* named by source, identifier and a day on which a change was detected for
\* it: one file per such day, however many changes the day saw, and distinct
\* files for distinct days.
C20_OneSnapshotPerChangeDay ==
    \A t \in Targets :
        /\ SnapshotsOf(t) = {<<t[1], t[2], Datestamp(d)>> : d \in ChangeDaysOf(t)}
        /\ Cardinality(SnapshotsOf(t)) = Cardinality(ChangeDaysOf(t))

\* A target has a snapshot for each of two days; the last call detected a
\* change and wrote the one of the later day.
C20_Witness ==
    \E t \in Targets :
        /\ Cardinality(SnapshotsOf(t)) = 2
        /\ now > 0
        /\ Len(writes) = 2
        /\ writes[1] = <<"snapshot", <<t[1], t[2], Datestamp(now)>>>>
        /\ metadata_path(t[1], t[2]) \in DOMAIN metadata
        /\ load_metadata(t[1], t[2])["last_updated"] = IsoFormat(now)
        /\ \E d \in ChangeDaysOf(t) : d < now

----------------------------------------------------------------------------
(* Claims about the utilities of extract.py *)

SameKeys(d, e) == {d[i][1] : i \in 1..Len(d)} = {e[i][1] : i \in 1..Len(e)}

Digest(i) == ret[i].val

\* C21: compute_hash does not depend on the insertion order of the keys and
\* tells values apart: of any two calls, the digests are equal when the two
\* dicts are equal as dicts (the same keys with the same values, inserted in
\* any order), the digests differ when the dicts have the same keys and
\* differ in a value, and every digest is 64 hexadecimal digits.
C21_HashOrderIndependent ==
    \A i, j \in 1..Len(arg) :
        /\ ret[i].kind = "return"
        /\ Len(Digest(i)) = 64
        /\ \A n \in 1..Len(Digest(i)) : Digest(i)[n] \in HexDigits
        /\ DictEq(arg[i], arg[j]) => Digest(i) = Digest(j)
        /\ (SameKeys(arg[i], arg[j]) /\ ~DictEq(arg[i], arg[j])) => Digest(i) # Digest(j)

\* compute_hash was called on {"b": 2, "a": 1} and then on {"a": 1, "b": 2}.
C21_Witness ==
    /\ Len(arg) = 2
    /\ arg[2] = <<<<"b", 2>>, <<"a", 1>>>>
    /\ arg[1] = <<<<"a", 1>>, <<"b", 2>>>>
    /\ Digest(1) = Digest(2)
    /\ Len(Digest(1)) = 64

\* What the calls so far say load_metadata(source, identifier) returns.
LastSaved(source, identifier) ==
    IF <<source, identifier>> \in DOMAIN saved THEN saved[<<source, identifier>>] ELSE EmptyDict

SameDict(d, e) == DOMAIN d = DOMAIN e /\ \A k \in DOMAIN d : d[k] = e[k]

----------------------------------------------------------------------------
(* Claims about transform.py *)

Called(fn) == arg.fn = fn /\ ret # NoResult

\* C23: for every Source-A response holding an observations list of any
\* length, parse_fred_observations returns a table with one row per
\* observation, in the order of the list: the value "." is null, every other
\* value is its number, the date is the observation's date, and every row
\* carries the series_id and series_name given and the source FRED; the
\* other fields of the response and of the observations are left out.
C23_FredRowsPerObservation ==
    Called("parse_fred_observations") =>
        LET obs == arg.args[1]["observations"]
        IN  /\ ret.kind = "return"
            /\ Len(ret.val) = Len(obs)
            /\ \A i \in 1..Len(obs) :
                  /\ DOMAIN ret.val[i] = {"series_id", "series_name", "date", "value", "source"}
                  /\ ret.val[i].series_id = arg.args[2]
                  /\ ret.val[i].series_name = arg.args[3]
                  /\ ret.val[i].source = "FRED"
                  /\ ret.val[i].date.date = obs[i].date
                  /\ IsNa(ret.val[i].value) <=> obs[i].value = "."
                  /\ obs[i].value = "5.0" => ret.val[i].value = Num(50)
                  /\ obs[i].value = "5.2" => ret.val[i].value = Num(52)

\* The observations of a batch as <<seriesID, year, period>>, one per
\* observation, and the rows of a table that came from observation o.
BatchObservations(data) ==
    UNION {{<<k, i>> : i \in 1..Len(data["Results"]["series"][k]["data"])} :
              k \in 1..Len(data["Results"]["series"])}

RowsFrom(table, data, o) ==
    LET series == data["Results"]["series"][o[1]]
    IN  {n \in 1..Len(table) :
            /\ table[n].series_id = series["seriesID"]
            /\ table[n].date.date =
                  (CASE series["data"][o[2]].period = "M01" -> "2024-01-01"
                     [] series["data"][o[2]].period = "M02" -> "2024-02-01"
                     [] series["data"][o[2]].period = "M03" -> "2024-03-01")}

SameMonth(data, o) ==
    {q \in BatchObservations(data) :
        /\ data["Results"]["series"][q[1]]["seriesID"] = data["Results"]["series"][o[1]]["seriesID"]
        /\ data["Results"]["series"][q[1]]["data"][q[2]].period
              = data["Results"]["series"][o[1]]["data"][o[2]].period}

\* C24: parse_bls_batch returns a table with one row per observation of
\* every series of the batch (as many rows as observations, and for every
\* observation as many rows of its series and date, the first day of its
\* year and month, as the batch has such observations), whose dates ascend
\* over the whole table, whatever the order of the series and of the
\* observations in the batch.
C24_BlsRowsSortedGlobally ==
    Called("parse_bls_batch") =>
        LET data == arg.args[1]
        IN  /\ ret.kind = "return"
            /\ Len(ret.val) = Cardinality(BatchObservations(data))
            /\ \A o \in BatchObservations(data) :
                  Cardinality(RowsFrom(ret.val, data, o)) = Cardinality(SameMonth(data, o))
            /\ \A n \in 1..Len(ret.val) : ret.val[n].date.time = "00:00:00"
            /\ \A m, n \in 1..Len(ret.val) :
                  m < n => Ordinal(ret.val[m].date) <= Ordinal(ret.val[n].date)

\* C25: build_dim_series returns one row per entry of the two maps: first
\* the entries of the Source-A map in the map's order, each as (its series
\* id, its name, FRED), then the entries of the Source-B map in the map's
\* order, each as (its series id, its name, BLS), and no other row.
C25_DimRowPerEntry ==
    Called("build_dim_series") =>
        LET fred_series == arg.args[1]
            bls_series == arg.args[2]
        IN  /\ ret.kind = "return"
            /\ Len(ret.val) = Len(fred_series) + Len(bls_series)
            /\ \A i \in 1..Len(fred_series) :
                  ret.val[i] = [series_id |-> fred_series[i][2],
                                series_name |-> fred_series[i][1], source |-> "FRED"]
            /\ \A i \in 1..Len(bls_series) :
                  ret.val[Len(fred_series) + i] =
                      [series_id |-> bls_series[i][2],
                       series_name |-> bls_series[i][1], source |-> "BLS"]

\* build_dim_series was called on {"PCE_NOMINAL": "PCEC", "UNRATE": "UNRATE"}
\* and {"CPI_URBAN": ..., "AVG_WAGES": ...} and returned four rows, the first
\* for PCEC and the last for AVG_WAGES.
C25_Witness ==
    /\ Called("build_dim_series")
    /\ arg.args[1] = <<<<"PCE_NOMINAL", "PCEC">>, <<"UNRATE", "UNRATE">>>>
    /\ arg.args[2] = <<<<"CPI_URBAN", "CUUR0000SA0">>, <<"AVG_WAGES", "CES0500000003">>>>
    /\ Len(ret.val) = 4
    /\ ret.val[1].series_id = "PCEC"
    /\ ret.val[4].series_name = "AVG_WAGES"

\* The rows of a table that have the date d, in the table's order.
OnDate(table, d) == SelectSeq(table, LAMBDA row : row.date.date = d)

RECURSIVE RowCount(_)
RowCount(frames) == IF frames = <<>> THEN 0 ELSE Len(Head(frames)) + RowCount(Tail(frames))

Inputs == arg.args[1] \o <<arg.args[2]>>

\* C26: combine_fact_tables returns the union of the Source-A tables (zero
\* or more) and the Source-B table: it has as many rows as the inputs have
\* together, its dates ascend, and for every date its rows of that date are
\* the input rows of that date in the order of the concatenation (Source-A
\* tables in list order, then the Source-B table).
C26_CombineStableSorted ==
    Called("combine_fact_tables") =>
        /\ ret.kind = "return"
        /\ Len(ret.val) = RowCount(Inputs)
        /\ \A m, n \in 1..Len(ret.val) :
              m < n => Ordinal(ret.val[m].date) <= Ordinal(ret.val[n].date)
        /\ \A d \in {"2024-01-01", "2024-02-01"} :
              OnDate(ret.val, d) = OnDate(Concat(Inputs), d)

\* Two Source-A tables and the Source-B table each hold a row of
\* 2024-01-01, the first table after a row of 2024-02-01: the result starts
\* with the three rows of 2024-01-01 in the order of the inputs.
C26_Witness ==
    /\ Called("combine_fact_tables")
    /\ Len(arg.args[1]) = 2
    /\ Len(arg.args[1][1]) = 2
    /\ arg.args[1][1][1].date.date = "2024-02-01"
    /\ arg.args[1][1][2].date.date = "2024-01-01"
    /\ Len(arg.args[1][2]) = 1
    /\ Len(arg.args[2]) = 1
    /\ Len(ret.val) = 4
    /\ ret.val[1].series_id = "UNRATE"
    /\ ret.val[2].series_id = "FEDFUNDS"
    /\ ret.val[3].series_id = "CUUR0000SA0"
    /\ ret.val[4].date.date = "2024-02-01"

----------------------------------------------------------------------------
(* Claims about ensure_tables_exist *)

\* C27: ensure_tables_exist can be called any number of times on any
\* database: every call returns without an error, afterwards both tables
\* exist, the tables that existed before are the ones they were (none is
\* created again), and the rows stored in them are unchanged.
C27_EnsureIdempotent ==
    [][EnsureTablesExist
          => /\ ret' = Return(None)
             /\ tables' = tables \cup TableNames
             /\ fact' = fact
             /\ dim' = dim]_vars

\* ensure_tables_exist has returned on a database that holds two fact rows
\* and a dimension row.
C27_Witness ==
    /\ arg = Call("ensure_tables_exist", <<>>)
    /\ ret = Return(None)
    /\ tables = TableNames
    /\ Cardinality(DOMAIN fact) = 2
    /\ Cardinality(DOMAIN dim) = 1

----------------------------------------------------------------------------
(* Claims about the delays of fetch_with_retry *)

Failures(tr) == Cardinality({i \in 1..Len(tr) : Failed(tr[i])})

\* C28: at every point of a call of the wrapper, the delays it has slept
\* are: none while no attempt has failed, 1 second once the first attempt
\* has failed, 1 and then 2 seconds once the second has failed; a third
\* failed attempt and a successful attempt add no delay.
C28_BackoffDelays ==
    callee.op = "func" =>
        sleeps = SubSeq(<<1, 2>>, 1, IF Failures(trace) < 2 THEN Failures(trace) ELSE 2)

\* Three attempts have failed and the call has ended: the wrapper slept 1
\* second, then 2 seconds, and not after the third failure.
C28_Witness ==
    /\ Finished
    /\ callee.op = "func"
    /\ Failures(trace) = 3
    /\ sleeps = <<1, 2>>
    /\ result.kind = "raise"

----------------------------------------------------------------------------
(* Claims about the request of fetch_fred_data *)

\* An attempt of fetch_fred_data issues its request.
FredRequests ==
    /\ pc = "running"
    /\ callee.op = "fetch_fred_data"
    /\ requests' = requests + 1

\* C29: every request fetch_fred_data issues is for its series and carries
\* observation_start equal to the last_observation_date stored for the
\* series when the attempt starts, if one is stored; it carries no
\* observation_start if there is no metadata or no date in it.
C29_IncrementalStart ==
    [][FredRequests =>
          LET stored == StoredDateIn(metadata, callee.series_id)
          IN  /\ sent'["series_id"] = callee.series_id
              /\ IF Truthy(stored)
                 THEN HasKey(sent', "observation_start") /\ sent'["observation_start"] = stored
                 ELSE ~HasKey(sent', "observation_start")]_vars

\* A call of fetch_fred_data for a series whose metadata held 2024-02-01
\* has asked for the observations from 2024-02-01 on.
C29_Witness ==
    /\ Finished
    /\ callee.op = "fetch_fred_data"
    /\ requests >= 1
    /\ HasKey(sent, "observation_start")
    /\ sent["observation_start"] = "2024-02-01"
    /\ StoredDateIn(metadata, callee.series_id) = "2024-02-01"

----------------------------------------------------------------------------
(* Claims about the Transform phase of run_pipeline *)

\* The calls a step adds to the record of the run.
NewCalls == SubSeq(calls', Len(calls) + 1, Len(calls'))

\* The parse_fred_observations calls among them, in order.
IsParseFred(c) == c.fn = "parse_fred_observations"

NewParseFred == SelectSeq(NewCalls, IsParseFred)

\* The configured Source-A series whose extract result is None, and the others.
NoneSeries == {i \in 1..Len(FRED_SERIES) : FredGet(FRED_SERIES[i].name) = NoData}

HeldSeries == (1..Len(FRED_SERIES)) \ NoneSeries

\* The list comprehension of the Transform phase ran to its end: the phase
\* went on to parse_bls_batch.
ComprehensionEnded == \E k \in 1..Len(NewCalls) : NewCalls[k].fn = "parse_bls_batch"

\* C30: in the Transform phase parse_fred_observations is never called for
\* a Source-A series whose extract result is None nor with a None payload,
\* and unless the parse of an earlier series raises, every other configured
\* series is parsed once with its own payload, series id and name, in
\* configuration order; an error of the phase never comes from a
\* parse_fred_observations call on None.
C30_NoneSeriesSkipped ==
    [][pipe = "transform" =>
          /\ \A k \in 1..Len(NewParseFred) :
                /\ NewParseFred[k].args[1] # NoData
                /\ \A i \in NoneSeries :
                      /\ NewParseFred[k].args[2] # FRED_SERIES[i].series_id
                      /\ NewParseFred[k].args[3] # FRED_SERIES[i].name
          /\ ComprehensionEnded =>
                /\ Len(NewParseFred) = Cardinality(HeldSeries)
                /\ \A i \in HeldSeries :
                      \E k \in 1..Len(NewParseFred) :
                          /\ NewParseFred[k].args =
                                <<fred_data[FRED_SERIES[i].name], FRED_SERIES[i].series_id,
                                  FRED_SERIES[i].name>>
                          /\ k = Cardinality({j \in HeldSeries : j <= i})
          /\ pipe' = "done" /\ IsParseFred(NewCalls[Len(NewCalls)]) =>
                NewCalls[Len(NewCalls)].args[1] # NoData]_vars

\* Transform has ended without an error in a run that held None for UNRATE
\* and a payload for MONEY_COST: the only parse_fred_observations call is
\* that of MONEY_COST.
C30_Witness ==
    /\ pipe = "load"
    /\ FredGet("UNRATE") = NoData
    /\ FredGet("MONEY_COST") = StubFredData
    /\ SelectSeq(calls, IsParseFred)
         = <<Call("parse_fred_observations", <<StubFredData, "FEDFUNDS", "MONEY_COST">>)>>
    /\ logged = <<>>

----------------------------------------------------------------------------
(* Claims about the function fetch_with_retry returns *)

\* C31: the function fetch_with_retry returns for an operation has the name
\* of that operation.
C31_NamePreserved ==
    pc # "idle" => fetch_with_retry(callee.op).name = callee.op

----------------------------------------------------------------------------
(* Claims about overlapping calls of fetch_fred_data *)

\* No process is inside a call.
Quiet == \A p \in Workers : workers[p].pc = "idle"

\* The snapshot writes so far, in order.
IsSnapshotWrite(w) == w[1] = "snapshot"
SnapshotWrites == SelectSeq(writes, IsSnapshotWrite)

\* The stored last_hash of a series is not the fingerprint of the observations
\* in the snapshot file written last.
HashAstray(sid) ==
    /\ SnapshotWrites # <<>>
    /\ SnapshotWrites[Len(SnapshotWrites)][2][2] = sid
    /\ Get(load_metadata("FRED", sid), "last_hash")
          # compute_hash(files[SnapshotWrites[Len(SnapshotWrites)][2]]["observations"])

\* C32: when the calls of fetch_fred_data run one after another, never two
\* at a time, then after them the stored last_hash of a series is the
\* fingerprint of the observations in the snapshot file written last; the
\* state in which it is not is reachable only by calls that overlap.
C32_SequentialHashMatches ==
    Quiet /\ ~mixed => \A sid \in FredIds : ~HashAstray(sid)

\* Two calls for UNRATE both loaded the metadata before either had written
\* (there was none), they overlapped, and after both the stored last_hash is
\* not the fingerprint of the snapshot written last.
C32_Witness ==
    /\ Quiet
    /\ mixed
    /\ \A p \in Workers : workers[p].called /\ workers[p].meta = EmptyDict
                             /\ workers[p].data # NoData
    /\ HashAstray("UNRATE")

----------------------------------------------------------------------------
(* Claims about the rows upsert_observations stores *)

\* The keys of the rows of a DataFrame.
KeysOf(d) == {RowKey(d[i]) : i \in 1..Len(d)}

\* C33: over any sequence of ensure_tables_exist and upsert_observations
\* calls, a successful upsert_observations call leaves one stored row per
\* distinct key among the rows stored before and the rows of the DataFrame
\* (no key is stored twice), the stored row count grows by exactly the
\* inserted count the call returns, and ensure_tables_exist changes no
\* stored row of an existing table.
C33_OneRowPerKey ==
    [][/\ (Upsert /\ stats'.kind = "return") =>
             /\ DOMAIN fact' = DOMAIN fact \cup KeysOf(df)
             /\ Cardinality(DOMAIN fact') = Cardinality(DOMAIN fact) + stats'.val.inserted
       /\ (EnsureTablesExist /\ "fact_economic_observations" \in tables) => fact' = fact]_vars

\* A successful call has inserted two rows with different keys into a table
\* that is now the two of them.
C33_Witness ==
    /\ stats.kind = "return"
    /\ stats.val.inserted = 2
    /\ Cardinality(DOMAIN fact) = 2
    /\ DOMAIN fact = KeysOf(df)

\* Two rows of the DataFrame share a key.
RepeatsKey(d) == \E i, j \in 1..Len(d) : i # j /\ RowKey(d[i]) = RowKey(d[j])

\* C34: a call of upsert_observations on a DataFrame in which two rows share
\* a key, the table existing, completes without error and leaves the key
\* stored (once, keys being what rows are stored under), whether the key was
\* stored before the call or not.
C34_RepeatedKeyHandled ==
    [][(Upsert /\ RepeatsKey(df) /\ "fact_economic_observations" \in tables) =>
          /\ stats'.kind = "return"
          /\ KeysOf(df) \subseteq DOMAIN fact']_vars

\* C37: a call of upsert_observations that raises, whether at the
\* classification, at the batch insert or at a row update, leaves the stored
\* fact rows exactly as they were before the call.
C37_AllOrNothing ==
    [][((Upsert \/ UpsertInterrupted) /\ stats'.kind = "raise") => fact' = fact]_vars

----------------------------------------------------------------------------
(* Claims about the series of the fact table and dim_series *)

\* A run of run_pipeline has ended after its last Load call returned.
LoadCompleted ==
    /\ bound = "payload"
    /\ pipe = "done"
    /\ pipeOut = Return(None)
    /\ logged = <<>>
    /\ calls # <<>> /\ calls[Len(calls)] = LoadCalls[4]

----------------------------------------------------------------------------
(* Claims about the extractors' files when a call fails *)

\* A call of one of the two extractors is running.
Extracting == pc = "running" /\ callee.op \in {"fetch_fred_data", "fetch_bls_data"}

\* C35: while a call of fetch_fred_data or fetch_bls_data runs, an attempt
\* that raises (missing credential, transport or HTTP failure, malformed or
\* refused response) leaves every snapshot file and every metadata file as
\* it was, nothing but the attempts of the call touches the files, and a
\* call that ends in an error is made of attempts that all raised and has
\* written no file: the files are what they were before the call.
C35_FailedCallLeavesFiles ==
    [][Extracting =>
          /\ trace' = trace => metadata' = metadata /\ files' = files
          /\ (trace' # trace /\ trace'[Len(trace')].kind = "raise")
                => metadata' = metadata /\ files' = files
          /\ (pc' = "idle" /\ result'.kind = "raise")
                => /\ writes' = <<>>
                   /\ \A i \in 1..Len(trace') : trace'[i].kind = "raise"]_vars

\* A call of fetch_fred_data ended in an error after three attempts, with the
\* snapshot and the metadata of an earlier call in place.
C35_Witness ==
    /\ Finished
    /\ result.kind = "raise"
    /\ callee.op = "fetch_fred_data"
    /\ Len(trace) = 3
    /\ Truthy(FRED_API_KEY)
    /\ StoredDateIn(metadata, callee.series_id) = "2024-02-01"
    /\ files # <<>>

----------------------------------------------------------------------------
(* Claims about the metadata and the newest snapshot *)

\* The snapshot file of a target written most recently: days only go forward,
\* so it is the one of the latest day.
NewestSnapshot(t) ==
    CHOOSE f \in SnapshotsOf(t) : \A g \in SnapshotsOf(t) : g[3] <= f[3]

\* The fingerprint the extractor of a target takes of a snapshot's content:
\* of the observations for Source A, of the whole response for Source B.
Fingerprint(t, content) ==
    IF t[1] = "FRED" THEN compute_hash(content["observations"]) ELSE compute_hash_batch(content)

\* C36: over any sequence of calls of the two extractors run one after
\* another, whenever the metadata of a source and identifier exists, a
\* snapshot of it exists and the stored last_hash is the fingerprint of the
\* content of its most recently written snapshot; a call writes its snapshot
\* right before its metadata; and a metadata file once created stays.
C36_HashOfNewestSnapshot ==
    [][/\ \A t \in Targets :
             metadata_path(t[1], t[2]) \in DOMAIN metadata' =>
                /\ SnapshotsOf(t)' # {}
                /\ Get(LoadMetadataIn(metadata', t[1], t[2]), "last_hash")
                      = Fingerprint(t, files'[NewestSnapshot(t)'])
       /\ \A i \in 1..Len(writes') :
             writes'[i][1] = "metadata" =>
                i > 1 /\ writes'[i - 1][1] = "snapshot" /\ writes'[i - 1][2][2] = writes'[i][2][2]
       /\ DOMAIN metadata \subseteq DOMAIN metadata']_vars

\* Both sources have metadata, and Source A has snapshots of two days: a call
\* on the second day replaced the hash of the first day's snapshot.
C36_Witness ==
    /\ Finished
    /\ result.kind = "return"
    /\ \A t \in Targets : metadata_path(t[1], t[2]) \in DOMAIN metadata
    /\ Cardinality(SnapshotsOf(<<"FRED", "UNRATE">>)) = 2
    /\ files[<<"FRED", "UNRATE", Datestamp(0)>>] # files[<<"FRED", "UNRATE", Datestamp(1)>>]

====
